---- MODULE Spec2Model ----
(***************************************************************************)
(* A model of the currencycom exchange adapter (src/js/currencycom.js):    *)
(* the error classifier handleErrors, the trade and order normalizers      *)
(* parseTrade, parseOrder and parseOrderStatus, with the helpers of the    *)
(* base Exchange class they call.                                          *)
(*                                                                         *)
(* JavaScript values are represented by typed TLA+ values:                 *)
(*   - a string slot holds a string, or `undefined` (the string the `in`   *)
(*     operator and String() turn undefined into);                         *)
(*   - a number slot holds a rational <<n, d>> in lowest terms with d > 0, *)
(*     or undefinedNumber; doubles are modelled by exact rationals;        *)
(*   - an object is a record whose DOMAIN is the set of its own keys, so   *)
(*     `'k' in o` is  "k" \in DOMAIN o ; an undefined object slot holds    *)
(*     undefinedObject, and a bare JSON number holds a jstype-tagged       *)
(*     record.                                                             *)
(***************************************************************************)
EXTENDS Integers, Sequences, FiniteSets, TLC

VARIABLES
    options,        \* this.options: the exchange-specific options
    markets,        \* this.markets: the market catalog keyed by symbol
    markets_by_id,  \* this.markets_by_id: the market catalog keyed by venue id
    call,           \* the method invoked and its arguments
    result,         \* what the call produced: pending, a return or a throw
    requests,       \* the outbound requests the call has issued, in order
    pc,             \* where the call stands: idle, loadMarkets, body, done
    calls           \* the number of calls begun on this exchange object

vars == <<options, markets, markets_by_id, call, result, requests, pc, calls>>

----------------------------------------------------------------------------
(* Bounds of the model.                                                    *)

\* longest raw response body, in text fragments
MaxBodyParts == 2
\* longest fills list of an order payload
MaxFills == 2

----------------------------------------------------------------------------
(* JavaScript values.                                                      *)

undefined == "undefined"
undefinedNumber == <<>>
undefinedObject == [jstype |-> "undefined"]

JsNumber(n) == [jstype |-> "number", value |-> n]

\* isObject of the base class: a value with keys, not undefined or a number
isObject(o) == "jstype" \notin DOMAIN o

\* the own keys K of the object full
Restrict(full, K) == [k \in K |-> full[k]]

\* every finite sequence over S of length at most n
SeqUpTo(S, n) == UNION {[1..k -> S] : k \in 0..n}

----------------------------------------------------------------------------
(* Numbers: exact rationals <<n, d>>.                                      *)

RECURSIVE GCD(_, _)
GCD(a, b) == IF b = 0 THEN a ELSE GCD(b, a % b)

Abs(x) == IF x < 0 THEN -x ELSE x

Rat(n, d) ==
    LET g == GCD(Abs(n), Abs(d))
        s == IF d < 0 THEN -1 ELSE 1
    IN  <<(s * n) \div g, (s * d) \div g>>

Zero == Rat(0, 1)
RAdd(x, y) == Rat(x[1] * y[2] + y[1] * x[2], x[2] * y[2])
RSub(x, y) == Rat(x[1] * y[2] - y[1] * x[2], x[2] * y[2])
RMul(x, y) == Rat(x[1] * y[1], x[2] * y[2])
RDiv(x, y) == Rat(x[1] * y[2], x[2] * y[1])
RLess(x, y) == x[1] * y[2] < y[1] * x[2]
RMax(x, y) == IF RLess(x, y) THEN y ELSE x

RECURSIVE Pow10(_)
Pow10(p) == IF p = 0 THEN 1 ELSE 10 * Pow10(p - 1)

----------------------------------------------------------------------------
(* Helpers of the base Exchange class.                                     *)

\* safeValue (o, k, default): the value under key k, else the default
safeValue(o, k, default) ==
    IF isObject(o) /\ k \in DOMAIN o THEN o[k] ELSE default

\* safeString (o, k, default): the string under key k, else the default
safeString(o, k, default) ==
    IF isObject(o) /\ k \in DOMAIN o THEN o[k] ELSE default

\* safeFloat (o, k): the number under key k, else undefined
safeFloat(o, k) ==
    IF isObject(o) /\ k \in DOMAIN o THEN o[k] ELSE undefinedNumber

\* safeFloat2 (o, k1, k2): the number under k1, else the one under k2
safeFloat2(o, k1, k2) ==
    IF safeFloat(o, k1) # undefinedNumber THEN safeFloat(o, k1)
    ELSE safeFloat(o, k2)

\* safeStringLower (o, k): the lower-cased string under key k, else undefined
toLowerCase(s) ==
    CASE s = "MARKET" -> "market"
      [] s = "LIMIT" -> "limit"
      [] s = "BUY" -> "buy"
      [] s = "SELL" -> "sell"
      [] s = "SPOT" -> "spot"
      [] s = "LEVERAGE" -> "leverage"
      [] OTHER -> s

safeStringLower(o, k) ==
    IF isObject(o) /\ k \in DOMAIN o THEN toLowerCase(o[k]) ELSE undefined

\* safeCurrencyCode (id): the unified code of a venue currency id
safeCurrencyCode(currencyId) ==
    CASE currencyId = "XBT" -> "BTC"
      [] OTHER -> currencyId

\* iso8601 (timestamp): the datetime string of a timestamp, kept symbolic
iso8601(timestamp) ==
    IF timestamp = undefinedNumber THEN [iso8601 |-> "undefined"]
    ELSE [iso8601 |-> ToString(timestamp[1])]

\* a number that is neither undefined nor NaN
NaN == <<0, 0>>
isNumber(x) == x # undefinedNumber /\ x # NaN

\* x * y of two number slots: NaN unless both are numbers
JsMul(x, y) == IF isNumber(x) /\ isNumber(y) THEN RMul(x, y) ELSE NaN

\* sum (a, b): the sum of the arguments that are numbers, undefined if none
sum(a, b) ==
    IF isNumber(a) /\ isNumber(b) THEN RAdd(a, b)
    ELSE IF isNumber(a) THEN a
    ELSE IF isNumber(b) THEN b
    ELSE undefinedNumber

\* decimalToPrecision (x, TRUNCATE, p): x cut to p decimals, toward zero
RTruncate(x, p) ==
    LET scaled == Abs(x[1]) * Pow10(p)
        q == scaled \div x[2]
    IN  Rat(IF x[1] < 0 THEN -q ELSE q, Pow10(p))

\* decimalToPrecision (x, ROUND, p): x rounded to p decimals, half away
\* from zero
RRound(x, p) ==
    LET scaled == 2 * Abs(x[1]) * Pow10(p) + x[2]
        q == scaled \div (2 * x[2])
    IN  Rat(IF x[1] < 0 THEN -q ELSE q, Pow10(p))

\* parseFloat (amountToPrecision (symbol, x)), for a symbol of the catalog
amountToPrecision(symbol, x) == RTruncate(x, markets[symbol].precision.amount)

\* parseFloat (costToPrecision (symbol, x)), for a symbol of the catalog
costToPrecision(symbol, x) == RRound(x, markets[symbol].precision.price)

----------------------------------------------------------------------------
(* handleErrors.                                                           *)

id == "currencycom"

InvalidOrder == "InvalidOrder"
AuthenticationError == "AuthenticationError"
InsufficientFunds == "InsufficientFunds"
ExchangeNotAvailable == "ExchangeNotAvailable"
InvalidNonce == "InvalidNonce"
ExchangeError == "ExchangeError"
OrderNotFound == "OrderNotFound"
DDoSProtection == "DDoSProtection"

\* describe ().exceptions
exceptions ==
    ("FIELD_VALIDATION_ERROR Cancel is available only for LIMIT order"
        :> InvalidOrder)
    @@ ("API key does not exist" :> AuthenticationError)
    @@ ("Order would trigger immediately." :> InvalidOrder)
    @@ ("Account has insufficient balance for requested action."
        :> InsufficientFunds)
    @@ ("Rest API trading is not enabled." :> ExchangeNotAvailable)
    @@ ("-1000" :> ExchangeNotAvailable)
    @@ ("-1013" :> InvalidOrder)
    @@ ("-1021" :> InvalidNonce)
    @@ ("-1022" :> AuthenticationError)
    @@ ("-1100" :> InvalidOrder)
    @@ ("-1104" :> ExchangeError)
    @@ ("-1128" :> ExchangeError)
    @@ ("-2010" :> ExchangeError)
    @@ ("-2011" :> OrderNotFound)
    @@ ("-2013" :> OrderNotFound)
    @@ ("-2014" :> AuthenticationError)
    @@ ("-2015" :> AuthenticationError)

\* what a method call produces
Pending == [kind |-> "pending"]
Return(v) == [kind |-> "return", value |-> v]
\* throw new class (message): the message is the sequence of its parts
Throw(class, message) == [kind |-> "throw", class |-> class, message |-> message]

\* the three message patterns of the legacy body checks
CostPattern == "Price * QTY is zero or less"
LotSizePattern == "LOT_SIZE"
PriceFilterPattern == "PRICE_FILTER"

CostText == "order cost = amount * price is zero or less"
LotSizeText == "order amount should be evenly divisible by lot size"
PriceFilterText == "order price is invalid"

\* body.indexOf (s): the body is a sequence of text fragments; the index of
\* the first fragment that is s, counted from 0, or -1
indexOf(body, s) ==
    IF \E i \in 1..Len(body) : body[i] = s
    THEN (CHOOSE i \in 1..Len(body) :
              body[i] = s /\ \A j \in 1..(i - 1) : body[j] # s) - 1
    ELSE -1

\* JSON.parse (message): ok with the parsed value, or not ok (SyntaxError)
NestedAuth == "{\"msg\":\"API key does not exist\"}"
NestedUnknown == "{\"msg\":\"UNKNOWN_ORDER\"}"
NestedCode == "{\"code\":-2011}"

JSONparse(message) ==
    CASE message = NestedAuth ->
            [ok |-> TRUE, value |-> [msg |-> "API key does not exist"]]
      [] message = NestedUnknown ->
            [ok |-> TRUE, value |-> [msg |-> "UNKNOWN_ORDER"]]
      [] message = NestedCode ->
            [ok |-> TRUE, value |-> [code |-> -2011]]
      [] message = "-1021" ->
            [ok |-> TRUE, value |-> JsNumber(-1021)]
      [] OTHER -> [ok |-> FALSE]

\* a classifier that forgets status 418
IsRateLimitStatus_only429(code) == code = 429

\* lines 1048-1050
IsRateLimitStatus(code) == (code = 418) \/ (code = 429)

\* a classifier whose body checks start above status 400
IsErrorStatus_above400(code) == code > 400

\* line 1054
IsErrorStatus(code) == code >= 400

\* a classifier that takes an absent success field for a failure
successOf_defaultFalse(response) == safeValue(response, "success", FALSE)

\* line 1070
successOf(response) == safeValue(response, "success", TRUE)

\* a lookup that never parses the message
LookupResponse_outerOnly(response) == response

\* lines 1071-1085: the response the table lookup reads
LookupResponse(response) ==
    IF ~successOf(response)
    THEN LET message == safeString(response, "msg", undefined)
         IN  IF message # undefined /\ JSONparse(message).ok
             THEN JSONparse(message).value
             ELSE response
    ELSE response

\* line 1087
LookupMessage(response) == safeString(LookupResponse(response), "msg", undefined)

\* lines 1086-1094
ClassifyResponse(body, response) ==
    LET message == LookupMessage(response)
    IN  IF message \in DOMAIN exceptions
        THEN Throw(exceptions[message], <<id, message>>)
        ELSE IF ~successOf(response)
        THEN Throw(ExchangeError, <<id>> \o body)
        ELSE Return(undefined)

handleErrors(code, reason, body, response) ==
    IF IsRateLimitStatus(code)
    THEN Throw(DDoSProtection, <<id, ToString(code), reason>> \o body)
    ELSE IF IsErrorStatus(code) /\ indexOf(body, CostPattern) >= 0
    THEN Throw(InvalidOrder, <<id, CostText>> \o body)
    ELSE IF IsErrorStatus(code) /\ indexOf(body, LotSizePattern) >= 0
    THEN Throw(InvalidOrder, <<id, LotSizeText>> \o body)
    ELSE IF IsErrorStatus(code) /\ indexOf(body, PriceFilterPattern) >= 0
    THEN Throw(InvalidOrder, <<id, PriceFilterText>> \o body)
    ELSE IF response = undefinedObject
    THEN Return(undefined)
    ELSE ClassifyResponse(body, response)

----------------------------------------------------------------------------
(* parseTrade.                                                             *)

\* safeString2 (o, k1, k2) and safeInteger2 (o, k1, k2)
safeString2(o, k1, k2) ==
    IF safeString(o, k1, undefined) # undefined THEN safeString(o, k1, undefined)
    ELSE safeString(o, k2, undefined)

safeInteger2(o, k1, k2) == safeFloat2(o, k1, k2)

\* a side inference that reads the m flag as a direct side indicator
sideOf_direct(trade) ==
    IF "m" \in DOMAIN trade
    THEN (IF trade.m THEN "buy" ELSE "sell")
    ELSE IF "isBuyerMaker" \in DOMAIN trade
    THEN (IF trade.isBuyerMaker THEN "sell" ELSE "buy")
    ELSE IF "isBuyer" \in DOMAIN trade
    THEN (IF trade.isBuyer THEN "buy" ELSE "sell")
    ELSE undefined

\* lines 669-679
sideOf(trade) ==
    IF "m" \in DOMAIN trade
    THEN (IF trade.m THEN "sell" ELSE "buy")
    ELSE IF "isBuyerMaker" \in DOMAIN trade
    THEN (IF trade.isBuyerMaker THEN "sell" ELSE "buy")
    ELSE IF "isBuyer" \in DOMAIN trade
    THEN (IF trade.isBuyer THEN "buy" ELSE "sell")
    ELSE undefined

\* lines 680-686
feeOf(trade) ==
    IF "commission" \in DOMAIN trade
    THEN [cost |-> safeFloat(trade, "commission"),
          currency |-> safeCurrencyCode(safeString(trade, "commissionAsset", undefined))]
    ELSE undefinedObject

\* lines 687-690
takerOrMakerOf(trade) ==
    IF "isMaker" \in DOMAIN trade
    THEN (IF trade.isMaker THEN "maker" ELSE "taker")
    ELSE undefined

\* lines 691-698
symbolOfTrade(trade, market) ==
    LET found == IF market = undefinedObject
                 THEN safeValue(markets_by_id, safeString(trade, "symbol", undefined),
                                undefinedObject)
                 ELSE market
    IN  IF found # undefinedObject THEN found.symbol ELSE undefined

parseTrade(trade, market) ==
    LET timestamp == safeInteger2(trade, "T", "time")
        price == safeFloat2(trade, "p", "price")
        amount == safeFloat2(trade, "q", "qty")
    IN  [info |-> trade,
         timestamp |-> timestamp,
         datetime |-> iso8601(timestamp),
         symbol |-> symbolOfTrade(trade, market),
         id |-> safeString2(trade, "a", "id"),
         order |-> safeString(trade, "orderId", undefined),
         type |-> undefined,
         takerOrMaker |-> takerOrMakerOf(trade),
         side |-> sideOf(trade),
         price |-> price,
         amount |-> amount,
         cost |-> JsMul(price, amount),
         fee |-> feeOf(trade)]

\* parseTrades (trades, market): each raw trade parsed, in input order
parseTrades(trades, market) ==
    [i \in 1..Len(trades) |-> parseTrade(trades[i], market)]

----------------------------------------------------------------------------
(* parseOrderStatus.                                                       *)

statuses ==
    ("NEW" :> "open")
    @@ ("PARTIALLY_FILLED" :> "open")
    @@ ("FILLED" :> "closed")
    @@ ("CANCELED" :> "canceled")
    @@ ("PENDING_CANCEL" :> "canceling")
    @@ ("REJECTED" :> "rejected")
    @@ ("EXPIRED" :> "expired")

\* a status mapping with no fallback to the raw status
parseOrderStatus_noDefault(status) == safeString(statuses, status, undefined)

\* lines 741-752
parseOrderStatus(status) == safeString(statuses, status, status)

----------------------------------------------------------------------------
(* parseOrder.                                                             *)

undefinedList == <<undefined>>

\* lines 779-786
marketOfOrder(order, market) ==
    LET marketId == safeString(order, "symbol", undefined)
    IN  IF marketId \in DOMAIN markets_by_id THEN markets_by_id[marketId]
        ELSE market

\* lines 787-792
timestampOfOrder(order) ==
    IF "time" \in DOMAIN order THEN safeFloat(order, "time")
    ELSE IF "transactTime" \in DOMAIN order THEN safeFloat(order, "transactTime")
    ELSE undefinedNumber

\* a remaining amount that is not clamped at zero
remainingOf_unclamped(symbol, amount, filled) ==
    IF filled # undefinedNumber /\ amount # undefinedNumber
    THEN LET remaining == RSub(amount, filled)
         IN  IF options.parseOrderToPrecision
             THEN amountToPrecision(symbol, remaining)
             ELSE remaining
    ELSE undefinedNumber

\* lines 796-805
remainingOf(symbol, amount, filled) ==
    IF filled # undefinedNumber /\ amount # undefinedNumber
    THEN LET remaining == RSub(amount, filled)
             rounded == IF options.parseOrderToPrecision
                        THEN amountToPrecision(symbol, remaining)
                        ELSE remaining
         IN  RMax(rounded, Zero)
    ELSE undefinedNumber

\* lines 797-811: the cost before the fills are read
costOfOrder(order, price, filled) ==
    LET cost == safeFloat(order, "cummulativeQuoteQty")
    IN  IF filled # undefinedNumber /\ price # undefinedNumber
            /\ cost = undefinedNumber
        THEN RMul(price, filled)
        ELSE cost

\* lines 814-822
backfillPrice(type, price, cost, filled) ==
    IF type = "market" /\ price = Zero
        /\ cost # undefinedNumber /\ filled # undefinedNumber
        /\ RLess(Zero, cost) /\ RLess(Zero, filled)
    THEN RDiv(cost, filled)
    ELSE price

\* lines 836-839: the loop over trades[i], i from 1 (here from 2)
RECURSIVE accumulateCost(_, _, _)
accumulateCost(trades, i, cost) ==
    IF i > Len(trades) THEN cost
    ELSE accumulateCost(trades, i + 1, sum(cost, trades[i].cost))

RECURSIVE accumulateFee(_, _, _)
accumulateFee(trades, i, feeCost) ==
    IF i > Len(trades) THEN feeCost
    ELSE accumulateFee(trades, i + 1, sum(feeCost, trades[i].fee.cost))

\* an aggregation that replaces the cost by each fill's instead of adding
fillsCost_replacing(trades) == trades[Len(trades)].cost

\* lines 831-839: cost and fee of a non-empty list of parsed fills
fillsCost(trades) == accumulateCost(trades, 2, trades[1].cost)

fillsFee(trades) ==
    [cost |-> accumulateFee(trades, 2, trades[1].fee.cost),
     currency |-> trades[1].fee.currency]

\* an average that divides whenever the cost is defined
averageOf_unguarded(cost, filled) ==
    IF cost # undefinedNumber /\ filled # undefinedNumber /\ filled # Zero
    THEN RDiv(cost, filled)
    ELSE IF cost # undefinedNumber /\ filled = Zero THEN NaN
    ELSE undefinedNumber

\* lines 842-846: `if (filled)` is false for undefined and for zero
averageOf(cost, filled) ==
    IF cost # undefinedNumber /\ filled # undefinedNumber /\ filled # Zero
    THEN RDiv(cost, filled)
    ELSE undefinedNumber

TypeError == "TypeError"

parseOrder(order, marketArg) ==
    LET status == parseOrderStatus(safeString(order, "status", undefined))
        market == marketOfOrder(order, marketArg)
        symbol == IF market # undefinedObject THEN market.symbol ELSE undefined
        timestamp == timestampOfOrder(order)
        price0 == safeFloat(order, "price")
        amount == safeFloat(order, "origQty")
        filled == safeFloat(order, "executedQty")
        cost0 == costOfOrder(order, price0, filled)
        type == safeStringLower(order, "type")
        price == backfillPrice(type, price0, cost0, filled)
        hasFills == "fills" \in DOMAIN order
        trades == IF hasFills THEN parseTrades(order.fills, market) ELSE undefinedList
        aggregates == hasFills /\ Len(trades) > 0
        cost == IF aggregates THEN fillsCost(trades) ELSE cost0
        toPrecision == options.parseOrderToPrecision
    IN  IF toPrecision /\ filled # undefinedNumber /\ amount # undefinedNumber
            /\ symbol \notin DOMAIN markets
        THEN \* line 802: this.markets[symbol] is undefined
             Throw(TypeError, <<"amountToPrecision">>)
        ELSE IF aggregates
                /\ \E i \in 1..Len(trades) : trades[i].fee = undefinedObject
        THEN \* lines 833 and 838: trades[i]['fee'] is undefined
             Throw(TypeError, <<"fee">>)
        ELSE IF toPrecision /\ cost # undefinedNumber
                /\ symbol \notin DOMAIN markets
        THEN \* line 848: this.markets[symbol] is undefined
             Throw(TypeError, <<"costToPrecision">>)
        ELSE Return(
            [info |-> order,
             id |-> safeString(order, "orderId", undefined),
             timestamp |-> timestamp,
             datetime |-> iso8601(timestamp),
             lastTradeTimestamp |-> undefinedNumber,
             symbol |-> symbol,
             type |-> type,
             side |-> safeStringLower(order, "side"),
             price |-> price,
             amount |-> amount,
             cost |-> IF toPrecision /\ cost # undefinedNumber
                      THEN costToPrecision(symbol, cost) ELSE cost,
             average |-> averageOf(cost, filled),
             filled |-> filled,
             remaining |-> remainingOf(symbol, amount, filled),
             status |-> status,
             fee |-> IF aggregates THEN fillsFee(trades) ELSE undefinedObject,
             trades |-> trades])

----------------------------------------------------------------------------
(* parseTicker, lines 445-524.                                             *)

\* the strings with a '/' that the model handles: <<whole, left, right>>
SlashStrings ==
    {<<"BTC/USD", "BTC", "USD">>, <<"XBT/USD", "XBT", "USD">>,
     <<"ETH/EUR", "ETH", "EUR">>, <<"EVK/EUR", "EVK", "EUR">>,
     <<"BTC/USD_LEVERAGE", "BTC", "USD_LEVERAGE">>}

\* s.indexOf ('/') >= 0
hasSlash(s) == \E t \in SlashStrings : t[1] = s

\* s.split ('/')
split(s) ==
    IF hasSlash(s)
    THEN LET t == CHOOSE t \in SlashStrings : t[1] = s IN <<t[2], t[3]>>
    ELSE <<s>>

\* base + '/' + quote
slashJoin(base, quote) ==
    (CHOOSE t \in SlashStrings : t[2] = base /\ t[3] = quote)[1]

\* safeInteger (o, k): the integer under key k, else undefined
safeInteger(o, k) == safeFloat(o, k)

\* lines 482-492: the symbol after the lookup by venue id
symbolOfMarketId(marketId) ==
    IF marketId \in DOMAIN markets_by_id THEN marketId
    ELSE IF hasSlash(marketId)
    THEN LET baseId == split(marketId)[1]
             quoteId == split(marketId)[2]
         IN slashJoin(safeCurrencyCode(baseId), safeCurrencyCode(quoteId))
    ELSE marketId

\* lines 484-485: the market after the lookup by venue id
marketOfTicker(marketId, marketArg) ==
    IF marketId # undefined /\ marketId \in DOMAIN markets_by_id
    THEN markets_by_id[marketId]
    ELSE marketArg

\* lines 481-495
symbolOfTicker(ticker, marketArg) ==
    LET marketId == safeString(ticker, "symbol", undefined)
        market == marketOfTicker(marketId, marketArg)
        symbol == IF marketId # undefined THEN symbolOfMarketId(marketId)
                  ELSE marketId
    IN IF symbol = undefined /\ market # undefinedObject
       THEN market.symbol
       ELSE symbol

\* lines 498-501
averageOfTicker(open, last) ==
    IF open # undefinedNumber /\ last # undefinedNumber
    THEN RDiv(sum(open, last), Rat(2, 1))
    ELSE undefinedNumber

parseTicker(ticker, marketArg) ==
    LET timestamp == safeInteger(ticker, "closeTime")
        last == safeFloat(ticker, "lastPrice")
        open == safeFloat(ticker, "openPrice")
    IN [symbol |-> symbolOfTicker(ticker, marketArg),
        timestamp |-> timestamp,
        datetime |-> iso8601(timestamp),
        high |-> safeFloat(ticker, "highPrice"),
        low |-> safeFloat(ticker, "lowPrice"),
        bid |-> safeFloat(ticker, "bidPrice"),
        bidVolume |-> safeFloat(ticker, "bidQty"),
        ask |-> safeFloat(ticker, "askPrice"),
        askVolume |-> safeFloat(ticker, "askQty"),
        vwap |-> safeFloat(ticker, "weightedAvgPrice"),
        open |-> open,
        close |-> last,
        last |-> last,
        previousClose |-> safeFloat(ticker, "prevClosePrice"),
        change |-> safeFloat(ticker, "priceChange"),
        percentage |-> safeFloat(ticker, "priceChangePercent"),
        average |-> averageOfTicker(open, last),
        baseVolume |-> safeFloat(ticker, "volume"),
        quoteVolume |-> safeFloat(ticker, "quoteVolume"),
        info |-> ticker]

\* lines 583-602: parseOHLCV; the entry at JavaScript index i of the candle
parseOHLCV(ohlcv, market) ==
    LET at(i) == IF i + 1 <= Len(ohlcv) THEN ohlcv[i + 1] ELSE undefinedNumber
    IN <<at(0), at(1), at(2), at(3), at(4), at(5)>>

----------------------------------------------------------------------------
(* calculateFee, lines 304-323.                                            *)

\* lines 309-311 with the price factor on both sides
feeCostOf_alwaysTimesPrice(side, amount, rate, price) ==
    RMul(RMul(amount, rate), price)

\* lines 309-311: the cost before rounding
feeCostOf(side, amount, rate, price) ==
    IF side = "sell" THEN RMul(RMul(amount, rate), price) ELSE RMul(amount, rate)

calculateFee(symbol, type, side, amount, price, takerOrMaker) ==
    LET market == markets[symbol]
        key == IF side = "sell" THEN "quote" ELSE "base"
        rate == market[takerOrMaker]
        precision == IF side = "sell" THEN market.precision.price
                     ELSE market.precision.amount
    IN [type |-> takerOrMaker,
        currency |-> market[key],
        rate |-> rate,
        cost |-> RRound(feeCostOf(side, amount, rate, price), precision)]

----------------------------------------------------------------------------
(* fetchMarkets, lines 155-302.  A step string ("0.001") is the sequence   *)
(* of its characters.                                                      *)

\* precisionFromString (s): the number of digits after the decimal point
precisionFromString(string) ==
    IF \E i \in 1..Len(string) : string[i] = "."
    THEN Len(string) - (CHOOSE i \in 1..Len(string) : string[i] = ".")
    ELSE 0

\* indexBy (list, key): the entries of the list under their value of key,
\* a later entry replacing an earlier one
indexBy(list, key) ==
    [k \in {list[i][key] : i \in 1..Len(list)} |->
        list[CHOOSE i \in 1..Len(list) :
                /\ list[i][key] = k
                /\ \A j \in (i + 1)..Len(list) : list[j][key] # k]]

\* -1 * Math.log10 (x), kept symbolic: a triple, unlike every rational
NegLog10(x) == <<x, 10, 0>>

\* lines 268-275: limits.price with a PRICE_FILTER, maxPrice = 0 kept
priceLimitsOf_zeroMax(filter) ==
    [min |-> safeFloat(filter, "minPrice"), max |-> safeFloat(filter, "maxPrice")]

\* lines 268-275: limits.price with a PRICE_FILTER
priceLimitsOf(filter) ==
    LET maxPrice == safeFloat(filter, "maxPrice")
    IN [min |-> safeFloat(filter, "minPrice"),
        max |-> IF maxPrice # undefinedNumber /\ RLess(Zero, maxPrice)
                THEN maxPrice ELSE undefinedNumber]

\* lines 226-229 only: the top-level precision fields
precisionOf_topLevel(market, filtersByType) ==
    [amount |-> safeInteger(market, "baseAssetPrecision"),
     price |-> safeInteger(market, "quotePrecision")]

\* lines 226-229, 276 and 281-282: precision after the filters
precisionOf(market, filtersByType) ==
    [amount |-> IF "LOT_SIZE" \in DOMAIN filtersByType
                THEN precisionFromString(
                         safeString(filtersByType["LOT_SIZE"], "stepSize", undefined))
                ELSE safeInteger(market, "baseAssetPrecision"),
     price |-> IF "PRICE_FILTER" \in DOMAIN filtersByType
               THEN precisionFromString(filtersByType["PRICE_FILTER"].tickSize)
               ELSE safeInteger(market, "quotePrecision")]

\* lines 245-260 with no default for the cost
defaultLimits_noCostMin(amount) ==
    [amount |-> [min |-> Rat(1, Pow10(amount)), max |-> undefinedNumber],
     price |-> [min |-> undefinedNumber, max |-> undefinedNumber],
     cost |-> [min |-> undefinedNumber, max |-> undefinedNumber]]

\* lines 245-260: the limits of a new entry, from precision.amount as read
\* from baseAssetPrecision at line 224
defaultLimits(amount) ==
    [amount |-> [min |-> Rat(1, Pow10(amount)), max |-> undefinedNumber],
     price |-> [min |-> undefinedNumber, max |-> undefinedNumber],
     cost |-> [min |-> NegLog10(amount), max |-> undefinedNumber]]

\* lines 263-298: the limits after the filters
limitsOf(market, filtersByType) ==
    LET amount == safeInteger(market, "baseAssetPrecision")
        has(type) == type \in DOMAIN filtersByType
        base ==
            [amount |-> IF has("LOT_SIZE")
                        THEN [min |-> safeFloat(filtersByType["LOT_SIZE"], "minQty"),
                              max |-> safeFloat(filtersByType["LOT_SIZE"], "maxQty")]
                        ELSE defaultLimits(amount).amount,
             price |-> IF has("PRICE_FILTER")
                       THEN priceLimitsOf(filtersByType["PRICE_FILTER"])
                       ELSE defaultLimits(amount).price,
             cost |-> [min |-> IF has("MIN_NOTIONAL")
                               THEN safeFloat(filtersByType["MIN_NOTIONAL"], "minNotional")
                               ELSE defaultLimits(amount).cost.min,
                       max |-> defaultLimits(amount).cost.max]]
    IN IF has("MARKET_LOT_SIZE")
       THEN base @@ [market |->
                [min |-> safeFloat(filtersByType["MARKET_LOT_SIZE"], "minQty"),
                 max |-> safeFloat(filtersByType["MARKET_LOT_SIZE"], "maxQty")]]
       ELSE base

\* lines 211-300: the entry built from one raw instrument
marketEntry(market) ==
    LET marketId == safeString(market, "symbol", undefined)
        baseId == safeString(market, "baseAsset", undefined)
        quoteId == safeString(market, "quoteAsset", undefined)
        base == safeCurrencyCode(baseId)
        quote == safeCurrencyCode(quoteId)
        filtersByType == indexBy(safeValue(market, "filters", <<>>), "filterType")
        lower == safeStringLower(market, "marketType")
        type == IF lower = "leverage" THEN "margin" ELSE lower
    IN [id |-> marketId,
        symbol |-> IF hasSlash(marketId) THEN marketId ELSE slashJoin(base, quote),
        base |-> base,
        quote |-> quote,
        baseId |-> baseId,
        quoteId |-> quoteId,
        type |-> type,
        spot |-> (type = "spot"),
        margin |-> (type = "margin"),
        info |-> market,
        active |-> (safeString(market, "status", undefined) = "TRADING"),
        precision |-> precisionOf(market, filtersByType),
        limits |-> limitsOf(market, filtersByType)]

\* lines 208-301: the list built from the exchange-info payload; reading
\* .length of an absent list is a TypeError
fetchMarketsResult(response) ==
    LET symbols == safeValue(response, "symbols", undefinedList)
    IN IF "symbols" \notin DOMAIN response
       THEN Throw(TypeError, <<"Cannot read property 'length' of undefined">>)
       ELSE Return([i \in 1..Len(symbols) |-> marketEntry(symbols[i])])

\* line 151 dropped: the offset is left as it was
loadTimeDifferenceOptions_keeps(opts, serverTime, after) == opts

\* lines 148-153 and 205-207: options after the time difference is loaded
loadTimeDifferenceOptions(opts, serverTime, after) ==
    [opts EXCEPT !.timeDifference = after - serverTime]

----------------------------------------------------------------------------
(* nonce and sign, lines 134-136 and 1015-1045.  URLs, queries and bodies  *)
(* are strings; an object of parameters is the sequence of its             *)
(* <<key, value>> pairs in insertion order, values already strings.        *)

\* extend (a, b): the keys of a, then the new keys of b; b's value wins
extend(a, b) ==
    LET keys(o) == {o[i][1] : i \in 1..Len(o)}
        valueIn(o, k) == (CHOOSE i \in 1..Len(o) : o[i][1] = k)
    IN [i \in 1..Len(a) |->
            IF a[i][1] \in keys(b) THEN <<a[i][1], b[valueIn(b, a[i][1])][2]>>
            ELSE a[i]]
       \o SelectSeq(b, LAMBDA p : p[1] \notin keys(a))

\* encodeURIComponent (s)
encodeURIComponent(s) ==
    CASE s = "BTC/USD" -> "BTC%2FUSD"
      [] s = "BTC/USD_LEVERAGE" -> "BTC%2FUSD_LEVERAGE"
      [] OTHER -> s

\* urlencode (o): key=value pairs joined by '&'
RECURSIVE urlencode(_)
urlencode(o) ==
    IF o = <<>> THEN ""
    ELSE o[1][1] \o "=" \o encodeURIComponent(o[1][2])
         \o (IF Len(o) = 1 THEN "" ELSE "&" \o urlencode(Tail(o)))

\* hmac (message, secret): the hex digest, kept symbolic
hmac(message, secret) == "hmac-sha256(" \o message \o "," \o secret \o ")"

\* line 135 without the offset
nonce_localTime(self) == self.milliseconds

\* lines 134-136
nonce(self) == self.milliseconds - options.timeDifference

\* line 1016
urlOf(api, path) ==
    "https://api-adapter.backend.currency.com/api" \o "/" \o "v1" \o "/" \o path

\* lines 1024-1028: the query before and after the signature is appended
unsignedQuery(self, params) ==
    urlencode(extend(<<<<"timestamp", ToString(nonce(self))>>,
                       <<"recvWindow", ToString(options.recvWindow)>>>>, params))

signedQuery(self, params) ==
    unsignedQuery(self, params) \o "&" \o "signature="
        \o hmac(unsignedQuery(self, params), self.secret)

\* line 1033 with GET only
queryOnUrl_getOnly(method) == method = "GET"

\* line 1033: the methods whose signed query goes on the URL
queryOnUrl(method) == (method = "GET") \/ (method = "DELETE")

\* lines 1022-1038: the private branch
signPrivate(path, method, params, self) ==
    IF self.apiKey = undefined \/ self.secret = undefined
    THEN Throw(AuthenticationError, <<id, "requires credentials">>)
    ELSE LET query == signedQuery(self, params)
             key == ("X-MBX-APIKEY" :> self.apiKey)
         IN IF queryOnUrl(method)
            THEN Return([url |-> urlOf("private", path) \o "?" \o query,
                         method |-> method,
                         body |-> undefined,
                         headers |-> key])
            ELSE Return([url |-> urlOf("private", path),
                         method |-> method,
                         body |-> query,
                         headers |-> key @@ ("Content-Type" :>
                                        "application/x-www-form-urlencoded")])

\* lines 1015-1045
sign(path, api, method, params, self) ==
    IF api = "private" THEN signPrivate(path, method, params, self)
    ELSE Return([url |-> IF params # <<>>
                         THEN urlOf(api, path) \o "?" \o urlencode(params)
                         ELSE urlOf(api, path),
                 method |-> method,
                 body |-> undefined,
                 headers |-> IF path = "historicalTrades"
                             THEN ("X-MBX-APIKEY" :> self.apiKey)
                             ELSE undefinedObject])

----------------------------------------------------------------------------
(* The inputs of handleErrors.                                             *)

HttpCodes == {200, 201, 400, 418, 429, 500}

HttpReason(code) ==
    CASE code = 200 -> "OK"
      [] code = 201 -> "Created"
      [] code = 400 -> "Bad Request"
      [] code = 418 -> "I'm a teapot"
      [] code = 429 -> "Too Many Requests"
      [] code = 500 -> "Internal Server Error"

BodyFragments == {CostPattern, LotSizePattern, PriceFilterPattern, "Invalid quantity."}
Bodies == SeqUpTo(BodyFragments, MaxBodyParts)

Messages ==
    {"API key does not exist", "Order would trigger immediately.", "-1021",
     "UNKNOWN_ORDER", NestedAuth, NestedUnknown, NestedCode}
ErrorCodes == {-2011, -1021, -9999}

Responses ==
    {undefinedObject} \cup
    {Restrict(full, K) :
        full \in [success : BOOLEAN, msg : Messages, code : ErrorCodes],
        K \in SUBSET {"success", "msg", "code"}}

HandleErrorsCalls ==
    {[op |-> "handleErrors", code |-> c, reason |-> HttpReason(c),
      body |-> b, response |-> r] :
        c \in HttpCodes, b \in Bodies, r \in Responses}

----------------------------------------------------------------------------
(* The market catalog and the inputs of the normalizers.                   *)

\* describe ().fees.trading, which the base class merges into every market
TradingFees == [taker |-> Rat(2, 1000), maker |-> Rat(2, 1000)]

BTCUSD ==
    [id |-> "BTC/USD", symbol |-> "BTC/USD", base |-> "BTC", quote |-> "USD",
     type |-> "spot", spot |-> TRUE, margin |-> FALSE,
     precision |-> [amount |-> 0, price |-> 0]] @@ TradingFees

\* an instrument whose venue id is not its symbol
EVKEUR ==
    [id |-> "EVK", symbol |-> "EVK/EUR", base |-> "EVK", quote |-> "EUR",
     type |-> "spot", spot |-> TRUE, margin |-> FALSE,
     precision |-> [amount |-> 3, price |-> 1]] @@ TradingFees

\* a margin instrument
BTCUSD_LEVERAGE ==
    [id |-> "BTC/USD_LEVERAGE", symbol |-> "BTC/USD_LEVERAGE", base |-> "BTC",
     quote |-> "USD", type |-> "margin", spot |-> FALSE, margin |-> TRUE,
     precision |-> [amount |-> 3, price |-> 3]] @@ TradingFees

CatalogMarkets == {BTCUSD, EVKEUR, BTCUSD_LEVERAGE}

\* this.markets_by_id and this.markets of the loaded catalog
Catalog == [i \in {m.id : m \in CatalogMarkets} |->
                CHOOSE m \in CatalogMarkets : m.id = i]
CatalogBySymbol == [s \in {m.symbol : m \in CatalogMarkets} |->
                CHOOSE m \in CatalogMarkets : m.symbol = s]

\* the market argument of parseTrade and parseOrder
MarketArgs == {undefinedObject, BTCUSD}

\* the three payload shapes of parseTrade, each with any of the side flags
PublicTrade == [a |-> "1658318071", p |-> Rat(5, 1), q |-> Rat(1, 1), T |-> Rat(1000, 1)]
FillTrade == [price |-> Rat(10, 1), qty |-> Rat(10, 1),
              commission |-> Rat(1, 1), commissionAsset |-> "USD"]
MyTrade ==
    [symbol |-> "BTC/USD", id |-> "28457", orderId |-> "100234",
     price |-> Rat(5, 1), qty |-> Rat(1, 1), commission |-> Rat(2, 1),
     commissionAsset |-> "XBT", time |-> Rat(2000, 1), isMaker |-> FALSE]

SideFlags ==
    {Restrict(full, K) :
        full \in [m : BOOLEAN, isBuyerMaker : BOOLEAN, isBuyer : BOOLEAN],
        K \in SUBSET {"m", "isBuyerMaker", "isBuyer"}}

Trades == {base @@ flags : base \in {PublicTrade, FillTrade, MyTrade}, flags \in SideFlags}

ParseTradeCalls ==
    {[op |-> "parseTrade", trade |-> t, market |-> m] :
        t \in Trades, m \in MarketArgs}

RawStatuses ==
    DOMAIN statuses \cup {"PENDING_NEW", "new", "", undefined}

ParseOrderStatusCalls ==
    {[op |-> "parseOrderStatus", status |-> s] : s \in RawStatuses}

\* the fills of an order payload
Fills ==
    {[price |-> pq[1], qty |-> pq[2]] @@ commission :
        pq \in {<<Rat(10, 1), Rat(10, 1)>>, <<Rat(5, 1), Rat(3, 2)>>},
        commission \in {<<>>,
                        [commission |-> Rat(1, 1), commissionAsset |-> "USD"],
                        [commission |-> Rat(2, 1), commissionAsset |-> "XBT"]}}

FillLists == SeqUpTo(Fills, MaxFills)

OptionalOrderKeys == {"price", "origQty", "executedQty", "cummulativeQuoteQty", "fills"}
RequiredOrderKeys == {"symbol", "orderId", "transactTime", "status", "type", "side"}

Orders ==
    {Restrict(full, RequiredOrderKeys \cup K) :
        full \in [symbol : {"BTC/USD", "ETH/USD"},
                  orderId : {"c0263"},
                  transactTime : {Rat(3000, 1)},
                  status : {"FILLED"},
                  type : {"MARKET", "LIMIT"},
                  side : {"BUY"},
                  price : {Zero, Rat(10, 1)},
                  origQty : {Rat(1, 1), Rat(10, 1)},
                  executedQty : {Zero, Rat(3, 2), Rat(10, 1)},
                  cummulativeQuoteQty : {Rat(100, 1)},
                  fills : FillLists],
        K \in SUBSET OptionalOrderKeys}

ParseOrderCalls ==
    {[op |-> "parseOrder", order |-> o, market |-> m] :
        o \in Orders, m \in MarketArgs}

----------------------------------------------------------------------------
(* The inputs of parseTicker.                                              *)

\* venue ids: in the catalog with another symbol, in the catalog as its own
\* symbol, outside it with a '/', outside it without one
Tickers ==
    {Restrict([symbol |-> s, lastPrice |-> Rat(3, 1), openPrice |-> Rat(2, 1),
               closeTime |-> Rat(1000, 1)], K) :
        s \in {"EVK", "BTC/USD", "XBT/USD", "ETH/EUR", "AAPL"},
        K \in SUBSET {"symbol", "lastPrice", "openPrice", "closeTime"}}

ParseTickerCalls ==
    {[op |-> "parseTicker", ticker |-> t, market |-> m] :
        t \in Tickers, m \in {undefinedObject, EVKEUR}}

\* candles: complete, cut short, empty
ParseOHLCVCalls ==
    {[op |-> "parseOHLCV", ohlcv |-> SubSeq(o, 1, n), market |-> m] :
        o \in {<<Rat(1000, 1), Rat(5, 1), Rat(6, 1), Rat(4, 1), Rat(5, 1), Rat(249, 1)>>,
               <<Rat(2000, 1), Rat(7, 2), Rat(7, 2), Rat(7, 2), Rat(7, 2), Zero>>},
        n \in {0, 5, 6}, m \in {undefinedObject, BTCUSD}}

----------------------------------------------------------------------------
(* The inputs of fetchMarkets: exchange-info payloads.                     *)

\* filter lists: at most one filter of each kind, in the venue's order, and
\* one list that repeats a kind
FilterLists ==
    LET StepSizes == {<<"1">>, <<"0", ".", "0", "1">>, <<"0", ".", "0", "0", "1">>}
        PriceFilters ==
            {Restrict([filterType |-> "PRICE_FILTER", minPrice |-> Rat(1, 100),
                       maxPrice |-> mx, tickSize |-> t], K) :
                mx \in {Zero, Rat(1000, 1)},
                t \in StepSizes,
                K \in {{"filterType", "tickSize"} \cup O :
                          O \in SUBSET {"minPrice", "maxPrice"}}}
        LotSizes ==
            {Restrict([filterType |-> "LOT_SIZE", minQty |-> Rat(1, 10),
                       maxQty |-> Rat(500, 1), stepSize |-> s], K) :
                s \in StepSizes,
                K \in {{"filterType", "stepSize"} \cup O :
                          O \in SUBSET {"minQty", "maxQty"}}}
        MarketLotSizes ==
            {[filterType |-> "MARKET_LOT_SIZE", minQty |-> Rat(1, 1),
              maxQty |-> Rat(50, 1)]}
        MinNotionals == {[filterType |-> "MIN_NOTIONAL", minNotional |-> Rat(10, 1)]}
    IN {p \o l \o m \o n :
            p \in {<<>>} \cup {<<f>> : f \in PriceFilters},
            l \in {<<>>} \cup {<<f>> : f \in LotSizes},
            m \in {<<>>} \cup {<<f>> : f \in MarketLotSizes},
            n \in {<<>>} \cup {<<f>> : f \in MinNotionals}}
       \cup {<<[filterType |-> "LOT_SIZE", minQty |-> Rat(1, 1), maxQty |-> Rat(2, 1),
                stepSize |-> <<"1">>],
               [filterType |-> "LOT_SIZE", minQty |-> Rat(1, 10),
                maxQty |-> Rat(500, 1), stepSize |-> <<"0", ".", "0", "1">>]>>}

RawMarket(i, filters) ==
    [symbol |-> i[1], name |-> i[1], status |-> i[5], baseAsset |-> i[2],
     baseAssetPrecision |-> 3, quoteAsset |-> i[3], quotePrecision |-> 3,
     marketType |-> i[4], filters |-> filters]

\* the payloads: no list, an empty list, one instrument, a spot and a margin
\* one, one instrument with another baseAssetPrecision
ExchangeInfos ==
    LET RawInstruments ==
            {<<"BTC/USD", "XBT", "USD", "SPOT", "TRADING">>,
             <<"EVK", "EVK", "EUR", "SPOT", "HALT">>,
             <<"BTC/USD_LEVERAGE", "BTC", "USD", "LEVERAGE", "TRADING">>}
    IN {[timezone |-> "UTC"], [timezone |-> "UTC", symbols |-> <<>>]}
       \cup {[timezone |-> "UTC", symbols |-> <<RawMarket(i, f)>>] :
               i \in RawInstruments, f \in FilterLists}
       \cup {[timezone |-> "UTC",
              symbols |-> <<RawMarket(<<"EVK", "EVK", "EUR", "SPOT", "TRADING">>, <<f>>),
                            RawMarket(<<"BTC/USD_LEVERAGE", "BTC", "USD", "LEVERAGE",
                                        "TRADING">>, <<>>)>>] :
               f \in {[filterType |-> "MIN_NOTIONAL", minNotional |-> Rat(10, 1)],
                      [filterType |-> "MARKET_LOT_SIZE", minQty |-> Rat(1, 1),
                       maxQty |-> Rat(50, 1)]}}
       \cup {[timezone |-> "UTC",
              symbols |-> <<[RawMarket(<<"BTC/USD", "XBT", "USD", "SPOT", "TRADING">>,
                                       l \o m \o n)
                                EXCEPT !.baseAssetPrecision = p]>>] :
               p \in {0, 1, 5},
               l \in {<<>>, <<[filterType |-> "LOT_SIZE", minQty |-> Rat(1, 10),
                                maxQty |-> Rat(500, 1),
                                stepSize |-> <<"0", ".", "0", "1">>]>>},
               m \in {<<>>, <<[filterType |-> "MARKET_LOT_SIZE", minQty |-> Rat(1, 1),
                                maxQty |-> Rat(50, 1)]>>},
               n \in {<<>>, <<[filterType |-> "MIN_NOTIONAL",
                                minNotional |-> Rat(10, 1)]>>}}

\* the readings of one call: the venue's server time, the local clock after it
ServerTimes == {1000, 1007}
ClockReadings == {1000, 1003}

FetchMarketsCalls ==
    {[op |-> "fetchMarkets", response |-> r, serverTime |-> 1000, after |-> 1003] :
        r \in ExchangeInfos}
    \cup {[op |-> "fetchMarkets", response |-> r, serverTime |-> s, after |-> a] :
            r \in {[timezone |-> "UTC"], [timezone |-> "UTC", symbols |-> <<>>]},
            s \in ServerTimes, a \in ClockReadings}

----------------------------------------------------------------------------
(* The inputs of sign.                                                     *)

\* self: this.apiKey, this.secret and the reading of this.milliseconds ()
SignCalls ==
    [op : {"sign"},
     path : {"order", "openOrders", "historicalTrades", "exchangeInfo"},
     api : {"public", "private"},
     method : {"GET", "POST", "DELETE"},
     params : {<<>>,
               <<<<"symbol", "BTC/USD">>>>,
               <<<<"symbol", "BTC/USD">>, <<"orderId", "42">>>>,
               <<<<"symbol", "EVK">>, <<"recvWindow", "60000">>>>,
               <<<<"timestamp", "1">>>>},
     self : [apiKey : {"KEY", undefined}, secret : {"SECRET", undefined},
             milliseconds : ClockReadings]]

\* the offsets a session can have cached
TimeDifferences == {0, -4, 3}

----------------------------------------------------------------------------
(* The inputs of calculateFee.                                             *)

CalculateFeeCalls ==
    [op : {"calculateFee"},
     symbol : DOMAIN CatalogBySymbol,
     type : {"limit", "market"},
     side : {"buy", "sell"},
     amount : {Rat(1, 1), Rat(5, 2), Rat(1500, 1)},
     price : {Rat(10, 1), Rat(333, 1)},
     takerOrMaker : {"taker", "maker"}]

----------------------------------------------------------------------------
(* The state machine: a call is drawn, then the method runs.               *)

\* describe ().options, lines 100-111
DefaultOptions ==
    [defaultTimeInForce |-> "GTC",
     warnOnFetchOpenOrdersWithoutSymbol |-> TRUE,
     recvWindow |-> 5000,
     timeDifference |-> 0,
     adjustForTimeDifference |-> FALSE,
     parseOrderToPrecision |-> FALSE,
     newOrderRespType |-> [market |-> "FULL", limit |-> "RESULT"]]

Init ==
    /\ markets = CatalogBySymbol
    /\ markets_by_id = Catalog
    /\ result = Pending
    /\ requests = <<>>
    /\ pc = "body"
    /\ calls = 1
    /\ \/ /\ call \in HandleErrorsCalls \cup ParseTradeCalls
                       \cup ParseOrderStatusCalls \cup ParseTickerCalls
                       \cup CalculateFeeCalls \cup ParseOHLCVCalls
          /\ options = DefaultOptions
       \/ /\ call \in ParseOrderCalls
          /\ options \in {[DefaultOptions EXCEPT !.parseOrderToPrecision = b] :
                            b \in BOOLEAN}
       \/ /\ call \in SignCalls
          /\ options \in {[DefaultOptions EXCEPT !.timeDifference = d] :
                            d \in TimeDifferences}
       \/ /\ call \in FetchMarketsCalls
          /\ options \in {[DefaultOptions EXCEPT !.adjustForTimeDifference = b] :
                            b \in BOOLEAN}

HandleErrors ==
    /\ call.op = "handleErrors"
    /\ result = Pending
    /\ result' = handleErrors(call.code, call.reason, call.body, call.response)
    /\ pc' = "done"
    /\ UNCHANGED <<options, markets, markets_by_id, call, requests, calls>>

ParseTrade ==
    /\ call.op = "parseTrade"
    /\ result = Pending
    /\ result' = Return(parseTrade(call.trade, call.market))
    /\ pc' = "done"
    /\ UNCHANGED <<options, markets, markets_by_id, call, requests, calls>>

ParseOrderStatus ==
    /\ call.op = "parseOrderStatus"
    /\ result = Pending
    /\ result' = Return(parseOrderStatus(call.status))
    /\ pc' = "done"
    /\ UNCHANGED <<options, markets, markets_by_id, call, requests, calls>>

ParseOrder ==
    /\ call.op = "parseOrder"
    /\ result = Pending
    /\ result' = parseOrder(call.order, call.market)
    /\ pc' = "done"
    /\ UNCHANGED <<options, markets, markets_by_id, call, requests, calls>>

ParseOHLCV ==
    /\ call.op = "parseOHLCV"
    /\ result = Pending
    /\ result' = Return(parseOHLCV(call.ohlcv, call.market))
    /\ pc' = "done"
    /\ UNCHANGED <<options, markets, markets_by_id, call, requests, calls>>

\* parseTicker, were it to file an unknown venue id in the catalog
ParseTicker_caching ==
    /\ call.op = "parseTicker"
    /\ result = Pending
    /\ result' = Return(parseTicker(call.ticker, call.market))
    /\ markets_by_id' =
          IF /\ "symbol" \in DOMAIN call.ticker
             /\ call.ticker.symbol \notin DOMAIN markets_by_id
          THEN markets_by_id @@ (call.ticker.symbol :> undefinedObject)
          ELSE markets_by_id
    /\ pc' = "done"
    /\ UNCHANGED <<options, markets, call, requests, calls>>

ParseTicker ==
    /\ call.op = "parseTicker"
    /\ result = Pending
    /\ result' = Return(parseTicker(call.ticker, call.market))
    /\ pc' = "done"
    /\ UNCHANGED <<options, markets, markets_by_id, call, requests, calls>>

CalculateFee ==
    /\ call.op = "calculateFee"
    /\ result = Pending
    /\ result' = Return(calculateFee(call.symbol, call.type, call.side, call.amount,
                                     call.price, call.takerOrMaker))
    /\ pc' = "done"
    /\ UNCHANGED <<options, markets, markets_by_id, call, requests, calls>>

Sign ==
    /\ call.op = "sign"
    /\ result = Pending
    /\ result' = sign(call.path, call.api, call.method, call.params, call.self)
    /\ pc' = "done"
    /\ UNCHANGED <<options, markets, markets_by_id, call, requests, calls>>

\* line 156 alone: the catalog request without the clock request
fetchMarketsRequests_exchangeInfoOnly(opts) ==
    <<[api |-> "public", method |-> "GET", path |-> "exchangeInfo", query |-> ""]>>

\* lines 156 and 205-207, 149: the requests fetchMarkets issues
fetchMarketsRequests(opts) ==
    <<[api |-> "public", method |-> "GET", path |-> "exchangeInfo", query |-> ""]>>
    \o (IF opts.adjustForTimeDifference
        THEN <<[api |-> "public", method |-> "GET", path |-> "time", query |-> ""]>>
        ELSE <<>>)

FetchMarkets ==
    /\ call.op = "fetchMarkets"
    /\ result = Pending
    /\ requests' = requests \o fetchMarketsRequests(options)
    /\ options' = IF options.adjustForTimeDifference
                  THEN loadTimeDifferenceOptions(options, call.serverTime, call.after)
                  ELSE options
    /\ result' = fetchMarketsResult(call.response)
    /\ pc' = "done"
    /\ UNCHANGED <<markets, markets_by_id, call, calls>>

Next ==
    \/ HandleErrors
    \/ ParseTrade
    \/ ParseOrderStatus
    \/ ParseOrder
    \/ ParseTicker
    \/ FetchMarkets
    \/ Sign
    \/ CalculateFee
    \/ ParseOHLCV

Spec == Init /\ [][Next]_vars

----------------------------------------------------------------------------
(* A session: calls made one after another on one exchange object whose    *)
(* catalog is not loaded at first.  A call is drawn with the answers the   *)
(* venue will give it; the call then runs from await to await.             *)

\* the number of calls of a session
MaxCalls == 3

ArgumentsRequired == "ArgumentsRequired"

\* s.toUpperCase ()
toUpperCase(s) ==
    CASE s = "limit" -> "LIMIT"
      [] s = "market" -> "MARKET"
      [] s = "buy" -> "BUY"
      [] s = "sell" -> "SELL"
      [] OTHER -> s

\* the decimal text of x >= 0 with p decimals
RECURSIVE padLeft(_, _)
padLeft(s, n) == IF Len(s) >= n THEN s ELSE padLeft("0" \o s, n)

decimalString(x, p) ==
    LET scaled == (x[1] * Pow10(p)) \div x[2]
    IN IF p = 0 THEN ToString(scaled)
       ELSE ToString(scaled \div Pow10(p)) \o "."
                \o padLeft(ToString(scaled % Pow10(p)), p)

\* safeValue (params, key) on an object given by its pairs
paramOf(params, key) ==
    IF \E i \in 1..Len(params) : params[i][1] = key
    THEN params[CHOOSE i \in 1..Len(params) : params[i][1] = key][2]
    ELSE undefined

\* setMarkets (list): the catalogs built from the fetched list, every entry
\* over the static trading fees
setMarkets(list) ==
    LET entries == [i \in 1..Len(list) |-> list[i] @@ TradingFees]
    IN [markets |-> indexBy(entries, "symbol"),
        markets_by_id |-> indexBy(entries, "id")]

\* loadMarkets (reload): whether the catalog is fetched
loadMarketsFetches(reload) == reload \/ ~isObject(markets)

\* a signed request as the transport sends it
privateRequest(method, path, params, self) ==
    [api |-> "private", method |-> method, path |-> path,
     query |-> signedQuery(self, params)]

\* lines 876-877 without the check
requiresAccountId_never(market, params) == FALSE

\* lines 876-878: a margin market and no accountId among the parameters
requiresAccountId(market, params) ==
    market.margin /\ paramOf(params, "accountId") = undefined

\* lines 896-899: a limit order without a price
requiresPrice(type, price) ==
    toUpperCase(type) = "LIMIT" /\ price = undefinedNumber

\* lines 882-903: the request of createOrder, params merged in
createOrderRequest(market, c) ==
    extend(<<<<"symbol", market.id>>,
             <<"quantity", decimalString(amountToPrecision(c.symbol, c.amount),
                                         market.precision.amount)>>,
             <<"type", toUpperCase(c.type)>>,
             <<"side", toUpperCase(c.side)>>,
             <<"newOrderRespType",
               safeValue(options.newOrderRespType, c.type, "RESULT")>>>>
           \o (IF toUpperCase(c.type) = "LIMIT"
               THEN <<<<"price", decimalString(RRound(c.price, market.precision.price),
                                               market.precision.price)>>,
                      <<"timeInForce", options.defaultTimeInForce>>>>
               ELSE <<>>),
           c.params)

\* the readings of a call: <<the venue's server time, the local clock>>
SessionClocks == {<<1000, 1003>>, <<1007, 1003>>}

\* the venue's instrument list during the session
SessionExchangeInfo ==
    [timezone |-> "UTC",
     symbols |-> <<RawMarket(<<"BTC/USD", "BTC", "USD", "SPOT", "TRADING">>, <<>>),
                   RawMarket(<<"EVK", "EVK", "EUR", "SPOT", "TRADING">>, <<>>),
                   RawMarket(<<"BTC/USD_LEVERAGE", "BTC", "USD", "LEVERAGE",
                               "TRADING">>, <<>>)>>]

\* the venue's answer to an order request, and to a trades request
SessionOrder ==
    [symbol |-> "BTC/USD", orderId |-> "c0263", transactTime |-> Rat(3000, 1),
     status |-> "FILLED", type |-> "MARKET", side |-> "BUY", price |-> Rat(10, 1),
     origQty |-> Rat(1, 1), executedQty |-> Rat(1, 1)]

SessionCalls ==
    {c @@ [self |-> [apiKey |-> "KEY", secret |-> "SECRET", milliseconds |-> t[2]],
           serverTime |-> t[1], after |-> t[2], response |-> SessionExchangeInfo] :
        t \in SessionClocks,
        c \in [op : {"createOrder"}, symbol : {"BTC/USD", "BTC/USD_LEVERAGE"},
               type : {"limit", "market"}, side : {"buy"}, amount : {Rat(1, 1)},
               price : {undefinedNumber, Rat(5, 1)},
               params : {<<>>, <<<<"accountId", "7">>>>}, reply : {SessionOrder}]
           \cup [op : {"cancelOrder"}, id : {"42"}, symbol : {undefined, "BTC/USD"},
                 params : {<<>>}, reply : {SessionOrder}]
           \cup [op : {"fetchMyTrades"}, symbol : {undefined, "EVK/EUR"},
                 params : {<<>>}, reply : {<<MyTrade>>}]
           \cup [op : {"fetchOpenOrders"}, symbol : {undefined, "BTC/USD"},
                 params : {<<>>}, reply : {<<SessionOrder>>}]
           \cup [op : {"fetchTradingFees", "fetchBalance"}, params : {<<>>},
                 reply : {[makerCommission |-> Rat(2, 1000),
                           takerCommission |-> Rat(2, 1000),
                           balances |-> <<[asset |-> "XBT", free |-> Rat(3, 2),
                                           locked |-> Rat(1, 2)]>>],
                          [makerCommission |-> Rat(2, 1000)]}]
           \cup [op : {"fetchOrderBook"}, symbol : {"BTC/USD"},
                 limit : {undefined, "5"}, params : {<<>>},
                 reply : {[lastUpdateId |-> Rat(77, 1),
                           bids |-> <<<<Rat(5, 1), Rat(1, 1)>>, <<Rat(6, 1), Rat(2, 1)>>>>,
                           asks |-> <<<<Rat(8, 1), Rat(1, 1)>>, <<Rat(7, 1), Rat(2, 1)>>>>]}]
           \cup [op : {"fetchTicker"}, symbol : {"EVK/EUR"}, params : {<<>>},
                 reply : {[symbol |-> "EVK", lastPrice |-> Rat(3, 1),
                           openPrice |-> Rat(2, 1), closeTime |-> Rat(1000, 1)]}]
           \cup [op : {"fetchTickers"}, symbols : {undefinedList, <<"BTC/USD">>},
                 params : {<<>>},
                 reply : {<<[symbol |-> "BTC/USD", lastPrice |-> Rat(3, 1)],
                            [symbol |-> "EVK", lastPrice |-> Rat(2, 1)]>>}]
           \cup [op : {"fetchOHLCV"}, symbol : {"BTC/USD"}, timeframe : {"1m", "1h"},
                 since : {undefined}, limit : {undefined, "5"}, params : {<<>>},
                 reply : {<<<<Rat(1000, 1), Rat(5, 1), Rat(6, 1), Rat(4, 1),
                              Rat(5, 1), Rat(10, 1)>>>>}]
           \cup [op : {"fetchTrades"}, symbol : {"BTC/USD"}, limit : {undefined},
                 params : {<<>>}, reply : {<<PublicTrade>>}]
           \cup [op : {"loadMarkets"}, reload : BOOLEAN]
           \cup [op : {"fetchMarkets", "loadTimeDifference"}]}

SessionInit ==
    /\ options \in {[DefaultOptions EXCEPT !.adjustForTimeDifference = b,
                                           !.warnOnFetchOpenOrdersWithoutSymbol = w] :
                        b \in BOOLEAN, w \in BOOLEAN}
    /\ markets = undefinedObject
    /\ markets_by_id = undefinedObject
    /\ call = [op |-> "none"]
    /\ result = Pending
    /\ requests = <<>>
    /\ pc = "idle"
    /\ calls = 0

\* a call begins and runs to its first await: lines 948-950 and 983-985
\* raise at once, lines 873, 951 and 986 await the catalog
Call ==
    /\ pc \in {"idle", "done"}
    /\ calls < MaxCalls
    /\ \E c \in SessionCalls :
        /\ call' = c
        /\ IF c.op \in {"cancelOrder", "fetchMyTrades"} /\ c.symbol = undefined
           THEN /\ result' = Throw(ArgumentsRequired,
                                   <<id, c.op, "requires a symbol argument">>)
                /\ pc' = "done"
           ELSE /\ result' = Pending
                /\ pc' = IF c.op \in {"fetchMarkets", "loadTimeDifference"}
                         THEN "body" ELSE "loadMarkets"
    /\ calls' = calls + 1
    /\ requests' = <<>>
    /\ UNCHANGED <<options, markets, markets_by_id>>

\* await this.loadMarkets (): the catalog is fetched, by fetchMarkets, when
\* it is not loaded or a reload is asked for
LoadMarkets ==
    /\ pc = "loadMarkets"
    /\ IF loadMarketsFetches(call.op = "loadMarkets" /\ call.reload)
       THEN /\ requests' = requests \o fetchMarketsRequests(options)
            /\ options' = IF options.adjustForTimeDifference
                          THEN loadTimeDifferenceOptions(options, call.serverTime,
                                                         call.after)
                          ELSE options
            /\ markets' = setMarkets(fetchMarketsResult(call.response).value).markets
            /\ markets_by_id' =
                    setMarkets(fetchMarketsResult(call.response).value).markets_by_id
       ELSE UNCHANGED <<requests, options, markets, markets_by_id>>
    /\ IF call.op = "loadMarkets"
       THEN result' = Return(markets') /\ pc' = "done"
       ELSE result' = result /\ pc' = "body"
    /\ UNCHANGED <<call, calls>>

\* lines 874-927
CreateOrder ==
    /\ pc = "body"
    /\ call.op = "createOrder"
    /\ LET market == markets[call.symbol]
       IN IF requiresAccountId(market, call.params)
          THEN /\ result' = Throw(ArgumentsRequired,
                    <<id, "createOrder requires an accountId parameter for",
                      market.type, "market", call.symbol>>)
               /\ requests' = requests
          ELSE IF requiresPrice(call.type, call.price)
          THEN /\ result' = Throw(InvalidOrder,
                    <<id, "createOrder method requires a price argument for a",
                      call.type, "order">>)
               /\ requests' = requests
          ELSE /\ requests' = Append(requests,
                    privateRequest("POST", "order", createOrderRequest(market, call),
                                   call.self))
               /\ result' = parseOrder(call.reply, market)
    /\ pc' = "done"
    /\ UNCHANGED <<options, markets, markets_by_id, call, calls>>

\* lines 951-979
CancelOrder ==
    /\ pc = "body"
    /\ call.op = "cancelOrder"
    /\ LET market == markets[call.symbol]
           origClientOrderId == paramOf(call.params, "origClientOrderId")
           request == <<<<"symbol", market.id>>,
                        IF origClientOrderId = undefined
                        THEN <<"orderId", call.id>>
                        ELSE <<"origClientOrderId", origClientOrderId>>>>
       IN /\ requests' = Append(requests,
                privateRequest("DELETE", "order", extend(request, call.params),
                               call.self))
          /\ result' = parseOrder(call.reply, market)
    /\ pc' = "done"
    /\ UNCHANGED <<options, markets, markets_by_id, call, calls>>

\* lines 986-1012
FetchMyTrades ==
    /\ pc = "body"
    /\ call.op = "fetchMyTrades"
    /\ LET market == markets[call.symbol]
       IN /\ requests' = Append(requests,
                privateRequest("GET", "myTrades",
                               extend(<<<<"symbol", market.id>>>>, call.params),
                               call.self))
          /\ result' = Return(parseTrades(call.reply, market))
    /\ pc' = "done"
    /\ UNCHANGED <<options, markets, markets_by_id, call, calls>>

\* lines 148-153
LoadTimeDifference ==
    /\ pc = "body"
    /\ call.op = "loadTimeDifference"
    /\ requests' = Append(requests,
            [api |-> "public", method |-> "GET", path |-> "time", query |-> ""])
    /\ options' = loadTimeDifferenceOptions(options, call.serverTime, call.after)
    /\ result' = Return(options'.timeDifference)
    /\ pc' = "done"
    /\ UNCHANGED <<markets, markets_by_id, call, calls>>

\* lines 556-562: parseTickers, with filterByArray of the base class: the
\* tickers under their symbol, those of the asked symbols when some are asked
parseTickers(rawTickers, symbols) ==
    LET tickers == [i \in 1..Len(rawTickers) |->
                        parseTicker(rawTickers[i], undefinedObject)]
        kept == IF symbols = undefinedList THEN tickers
                ELSE SelectSeq(tickers,
                        LAMBDA t : \E i \in 1..Len(symbols) : symbols[i] = t.symbol)
    IN indexBy(kept, "symbol")

\* describe ().timeframes, lines 37-47
timeframes == [t \in {"1m", "3m", "5m", "15m", "30m", "1h", "4h", "1d", "1w"} |-> t]

\* lines 1039-1043: a request of the public api as the transport sends it
publicRequest(path, params) ==
    [api |-> "public", method |-> "GET", path |-> path, query |-> urlencode(params)]

\* lines 366-374, after await loadMarkets
FetchTradingFees ==
    /\ pc = "body"
    /\ call.op = "fetchTradingFees"
    /\ requests' = Append(requests, privateRequest("GET", "account", call.params,
                                                   call.self))
    /\ result' = Return([info |-> call.reply,
                         maker |-> safeFloat(call.reply, "makerCommission"),
                         taker |-> safeFloat(call.reply, "takerCommission")])
    /\ pc' = "done"
    /\ UNCHANGED <<options, markets, markets_by_id, call, calls>>

\* lines 376-413, after await loadMarkets; parseBalance of the base class
\* adds the total of every account
FetchBalance ==
    /\ pc = "body"
    /\ call.op = "fetchBalance"
    /\ requests' = Append(requests, privateRequest("GET", "account", call.params,
                                                   call.self))
    /\ LET balances == safeValue(call.reply, "balances", <<>>)
           account(balance) ==
               [free |-> safeFloat(balance, "free"),
                used |-> safeFloat(balance, "locked"),
                total |-> sum(safeFloat(balance, "free"), safeFloat(balance, "locked"))]
           codes == {safeCurrencyCode(safeString(balances[i], "asset", undefined)) :
                        i \in 1..Len(balances)}
           last(code) == CHOOSE i \in 1..Len(balances) :
                /\ safeCurrencyCode(safeString(balances[i], "asset", undefined)) = code
                /\ \A j \in (i + 1)..Len(balances) :
                      safeCurrencyCode(safeString(balances[j], "asset", undefined)) # code
       IN result' = Return([info |-> call.reply,
                            accounts |-> [code \in codes |-> account(balances[last(code)])]])
    /\ pc' = "done"
    /\ UNCHANGED <<options, markets, markets_by_id, call, calls>>

\* lines 415-443, after await loadMarkets; parseOrderBook of the base class
\* sorts the bids by falling and the asks by rising price
FetchOrderBook ==
    /\ pc = "body"
    /\ call.op = "fetchOrderBook"
    /\ LET market == markets[call.symbol]
           request == <<<<"symbol", market.id>>>>
                      \o (IF call.limit # undefined
                          THEN <<<<"limit", call.limit>>>> ELSE <<>>)
       IN /\ requests' = Append(requests,
                publicRequest("depth", extend(request, call.params)))
          /\ result' = Return(
                [bids |-> SortSeq(safeValue(call.reply, "bids", <<>>),
                                  LAMBDA a, b : RLess(b[1], a[1])),
                 asks |-> SortSeq(safeValue(call.reply, "asks", <<>>),
                                  LAMBDA a, b : RLess(a[1], b[1])),
                 timestamp |-> undefinedNumber,
                 datetime |-> iso8601(undefinedNumber),
                 nonce |-> safeInteger(call.reply, "lastUpdateId")])
    /\ pc' = "done"
    /\ UNCHANGED <<options, markets, markets_by_id, call, calls>>

\* lines 526-554, after await loadMarkets
FetchTicker ==
    /\ pc = "body"
    /\ call.op = "fetchTicker"
    /\ LET market == markets[call.symbol]
       IN /\ requests' = Append(requests,
                publicRequest("ticker/24hr",
                              extend(<<<<"symbol", market.id>>>>, call.params)))
          /\ result' = Return(parseTicker(call.reply, market))
    /\ pc' = "done"
    /\ UNCHANGED <<options, markets, markets_by_id, call, calls>>

\* lines 564-581, after await loadMarkets
FetchTickers ==
    /\ pc = "body"
    /\ call.op = "fetchTickers"
    /\ requests' = Append(requests, publicRequest("ticker/24hr", call.params))
    /\ result' = Return(parseTickers(call.reply, call.symbols))
    /\ pc' = "done"
    /\ UNCHANGED <<options, markets, markets_by_id, call, calls>>

\* lines 604-626, after await loadMarkets; parseOHLCVs of the base class
\* parses every candle in order
FetchOHLCV ==
    /\ pc = "body"
    /\ call.op = "fetchOHLCV"
    /\ LET market == markets[call.symbol]
           request == <<<<"symbol", market.id>>,
                        <<"interval", timeframes[call.timeframe]>>>>
                      \o (IF call.since # undefined
                          THEN <<<<"startTime", call.since>>>> ELSE <<>>)
                      \o (IF call.limit # undefined
                          THEN <<<<"limit", call.limit>>>> ELSE <<>>)
       IN /\ requests' = Append(requests,
                publicRequest("klines", extend(request, call.params)))
          /\ result' = Return([i \in 1..Len(call.reply) |->
                                    parseOHLCV(call.reply[i], market)])
    /\ pc' = "done"
    /\ UNCHANGED <<options, markets, markets_by_id, call, calls>>

\* lines 716-739, after await loadMarkets
FetchTrades ==
    /\ pc = "body"
    /\ call.op = "fetchTrades"
    /\ LET market == markets[call.symbol]
           request == <<<<"symbol", market.id>>>>
                      \o (IF call.limit # undefined
                          THEN <<<<"limit", call.limit>>>> ELSE <<>>)
       IN /\ requests' = Append(requests,
                publicRequest("aggTrades", extend(request, call.params)))
          /\ result' = Return(parseTrades(call.reply, market))
    /\ pc' = "done"
    /\ UNCHANGED <<options, markets, markets_by_id, call, calls>>

\* lines 930-945, after await loadMarkets; parseOrders of the base class
\* parses every order in order
FetchOpenOrders ==
    /\ pc = "body"
    /\ call.op = "fetchOpenOrders"
    /\ IF call.symbol = undefined /\ options.warnOnFetchOpenOrdersWithoutSymbol
       THEN /\ result' = Throw(ExchangeError,
                    <<id, "fetchOpenOrders WARNING: fetching open orders without specifying a symbol is rate-limited to one call per",
                      ToString(Cardinality(DOMAIN markets) \div 2), "seconds">>)
            /\ requests' = requests
       ELSE LET market == IF call.symbol # undefined THEN markets[call.symbol]
                          ELSE undefinedObject
                request == IF call.symbol # undefined
                           THEN <<<<"symbol", market.id>>>> ELSE <<>>
            IN /\ requests' = Append(requests,
                    privateRequest("GET", "openOrders", extend(request, call.params),
                                   call.self))
               /\ result' = Return([i \in 1..Len(call.reply) |->
                                        parseOrder(call.reply[i], market).value])
    /\ pc' = "done"
    /\ UNCHANGED <<options, markets, markets_by_id, call, calls>>

SessionNext ==
    \/ Call
    \/ LoadMarkets
    \/ FetchMarkets
    \/ CreateOrder
    \/ CancelOrder
    \/ FetchMyTrades
    \/ LoadTimeDifference
    \/ FetchTradingFees
    \/ FetchBalance
    \/ FetchOrderBook
    \/ FetchTicker
    \/ FetchTickers
    \/ FetchOHLCV
    \/ FetchTrades
    \/ FetchOpenOrders

SessionSpec == SessionInit /\ [][SessionNext]_vars


----------------------------------------------------------------------------
(* A run of normalizer calls over a loaded catalog: the caller passes a    *)
(* payload to parseTicker, parseTrade, parseOrder, parseOHLCV or           *)
(* calculateFee, takes the result, and calls again.                        *)

\* the calls of a run: every ticker, trade, candle and fee call, and the
\* limit orders of ten units at price ten, three halves filled in at most
\* one fill, that carry every optional key
NormalizerCalls ==
    ParseTickerCalls \cup ParseTradeCalls \cup ParseOHLCVCalls \cup CalculateFeeCalls
    \cup {c \in ParseOrderCalls :
            /\ OptionalOrderKeys \subseteq DOMAIN c.order
            /\ c.order.type = "LIMIT"
            /\ c.order.origQty = Rat(10, 1)
            /\ c.order.price = Rat(10, 1)
            /\ c.order.executedQty = Rat(3, 2)
            /\ Len(c.order.fills) <= 1}

NormalizerInit ==
    /\ options \in {[DefaultOptions EXCEPT !.parseOrderToPrecision = b] : b \in BOOLEAN}
    /\ markets = CatalogBySymbol
    /\ markets_by_id = Catalog
    /\ call = [op |-> "none"]
    /\ result = Pending
    /\ requests = <<>>
    /\ pc = "idle"
    /\ calls = 0

\* the caller's next call
NormalizerCall ==
    /\ pc \in {"idle", "done"}
    /\ calls < MaxCalls
    /\ call' \in NormalizerCalls
    /\ result' = Pending
    /\ pc' = "body"
    /\ calls' = calls + 1
    /\ UNCHANGED <<options, markets, markets_by_id, requests>>

NormalizerNext ==
    \/ NormalizerCall
    \/ ParseTicker
    \/ ParseTrade
    \/ ParseOrder
    \/ ParseOHLCV
    \/ CalculateFee

NormalizerSpec == NormalizerInit /\ [][NormalizerNext]_vars
----------------------------------------------------------------------------
(* Claims about handleErrors.                                              *)

HandleErrorsDone == call.op = "handleErrors" /\ result # Pending

BodyHasPattern(body) ==
    \E i \in 1..Len(body) :
        body[i] \in {CostPattern, LotSizePattern, PriceFilterPattern}

BodyRuleTexts == {CostText, LotSizeText, PriceFilterText}

\* the throw is one of the three body-substring throws
IsBodyRuleThrow(r) ==
    /\ r.kind = "throw"
    /\ r.class = InvalidOrder
    /\ Len(r.message) >= 2
    /\ r.message[2] \in BodyRuleTexts

\* C1: every response with HTTP status 418 or 429 raises DDoSProtection,
\* whatever its body and parsed response are.
C1_RateLimitAlwaysWins ==
    (HandleErrorsDone /\ call.code \in {418, 429})
        => (result.kind = "throw" /\ result.class = DDoSProtection)

\* a 418 whose body has a body-rule pattern and whose response is a
\* success:false envelope with a message of the table
C1_Witness ==
    /\ HandleErrorsDone
    /\ call.code = 418
    /\ BodyHasPattern(call.body)
    /\ call.response = [success |-> FALSE, msg |-> "API key does not exist"]
    /\ result.class = DDoSProtection

\* C2: with status >= 400 other than 418/429 and a body holding one of the
\* three patterns, InvalidOrder is raised by the body rule, also when the
\* response is undefined or its message is in the table; below 400 no body
\* rule fires.
C2_BodyPatternsRaiseInvalidOrder ==
    HandleErrorsDone =>
        /\ (call.code >= 400 /\ call.code \notin {418, 429}
                /\ BodyHasPattern(call.body))
            => IsBodyRuleThrow(result)
        /\ (call.code < 400) => ~IsBodyRuleThrow(result)

\* status 400, a LOT_SIZE body and a message the table maps to
\* AuthenticationError: InvalidOrder all the same
C2_Witness ==
    /\ HandleErrorsDone
    /\ call.code = 400
    /\ call.body = <<LotSizePattern>>
    /\ call.response = [msg |-> "API key does not exist"]
    /\ result.class = InvalidOrder
    /\ result.message = <<id, LotSizeText, LotSizePattern>>

\* the response reaches the table lookup: no 418/429, no body rule, parsed
ReachesLookup ==
    /\ HandleErrorsDone
    /\ call.code \notin {418, 429}
    /\ ~(call.code >= 400 /\ BodyHasPattern(call.body))
    /\ call.response # undefinedObject

\* C3: a response that reaches the lookup raises the class the table gives
\* for its message string when that string is a key, and the class the
\* table gives for its numeric error code when the code is a key.
C3_TableLookupByMessageOrCode ==
    ReachesLookup =>
        LET r == call.response
            hasMsgKey == "msg" \in DOMAIN r /\ r.msg \in DOMAIN exceptions
            hasCodeKey == "code" \in DOMAIN r
                            /\ ToString(r.code) \in DOMAIN exceptions
        IN  /\ hasMsgKey =>
                (result.kind = "throw" /\ result.class = exceptions[r.msg])
            /\ (~hasMsgKey /\ hasCodeKey) =>
                (result.kind = "throw"
                    /\ result.class = exceptions[ToString(r.code)])

\* the message the claim speaks of: the nested object's message when the
\* outer message is JSON, else the outer message
NestedOrOuterMessage(r) ==
    IF "msg" \notin DOMAIN r THEN undefined
    ELSE IF JSONparse(r.msg).ok
         THEN LET v == JSONparse(r.msg).value
              IN  IF isObject(v) /\ "msg" \in DOMAIN v THEN v.msg ELSE undefined
         ELSE r.msg

SuccessIsFalse(r) == isObject(r) /\ "success" \in DOMAIN r /\ ~r.success

\* C4 as stated: every parsed success:false response whose message is no
\* table key raises ExchangeError with the raw body; every 2xx response
\* with success true or absent and a message that is no table key returns.
C4_AsStated ==
    HandleErrorsDone =>
        LET r == call.response
        IN  /\ (SuccessIsFalse(r)
                    /\ ~("msg" \in DOMAIN r /\ r.msg \in DOMAIN exceptions))
                => result = Throw(ExchangeError, <<id>> \o call.body)
            /\ (call.code \in 200..299 /\ ~SuccessIsFalse(r)
                    /\ ~(isObject(r) /\ "msg" \in DOMAIN r
                            /\ r.msg \in DOMAIN exceptions))
                => result = Return(undefined)

\* C4 (amended): a parsed success:false response that reaches the lookup
\* and whose message (the nested one when the outer message is JSON) is no
\* table key raises ExchangeError with the raw body; a 2xx response with
\* success true or absent and a message that is no table key returns.
C4_UnmatchedFailureIsExchangeError ==
    HandleErrorsDone =>
        LET r == call.response
        IN  /\ (ReachesLookup /\ SuccessIsFalse(r)
                    /\ NestedOrOuterMessage(r) \notin DOMAIN exceptions)
                => result = Throw(ExchangeError, <<id>> \o call.body)
            /\ (call.code \in 200..299 /\ ~SuccessIsFalse(r)
                    /\ ~(isObject(r) /\ "msg" \in DOMAIN r
                            /\ r.msg \in DOMAIN exceptions))
                => result = Return(undefined)

\* a 200 with success:false and an unknown message raises ExchangeError
\* carrying the body
C4_Witness ==
    /\ HandleErrorsDone
    /\ call.code = 200
    /\ call.body = <<"Invalid quantity.">>
    /\ call.response = [success |-> FALSE, msg |-> "UNKNOWN_ORDER"]
    /\ result = Throw(ExchangeError, <<id, "Invalid quantity.">>)

----------------------------------------------------------------------------
(* Claims about parseOrder.                                                *)

ParseOrderReturned ==
    call.op = "parseOrder" /\ result # Pending /\ result.kind = "return"

HasFills == "fills" \in DOMAIN call.order /\ Len(call.order.fills) > 0

\* the sum of price * qty, and of the commission, over raw fills
RECURSIVE SumOfFillCosts(_)
SumOfFillCosts(fills) ==
    IF fills = <<>> THEN Zero
    ELSE RAdd(RMul(Head(fills).price, Head(fills).qty), SumOfFillCosts(Tail(fills)))

RECURSIVE SumOfFillFees(_)
SumOfFillFees(fills) ==
    IF fills = <<>> THEN Zero
    ELSE RAdd(Head(fills).commission, SumOfFillFees(Tail(fills)))

\* C5 as stated: in every configuration, an order with fills has
\* cost = sum of the fills' price * qty, fee.cost = sum of the fills' fee
\* cost and the fee currency of the first fill.
C5_AsStated ==
    (ParseOrderReturned /\ HasFills) =>
        /\ result.value.cost = SumOfFillCosts(call.order.fills)
        /\ result.value.fee.cost = SumOfFillFees(call.order.fills)
        /\ result.value.fee.currency = result.value.trades[1].fee.currency

\* C5 (amended): an order with fills has fee.cost = sum of the fills' fee
\* cost and the fee currency of the first fill, and, with
\* parseOrderToPrecision off, cost = sum of the fills' price * qty,
\* replacing the cost the payload reported.
C5_FillsAggregate ==
    (ParseOrderReturned /\ HasFills) =>
        /\ ~options.parseOrderToPrecision
            => result.value.cost = SumOfFillCosts(call.order.fills)
        /\ result.value.fee.cost = SumOfFillFees(call.order.fills)
        /\ result.value.fee.currency = result.value.trades[1].fee.currency

\* two fills of different cost and currency under a payload that reports
\* a cumulative quote quantity of 100
C5_Witness ==
    /\ ParseOrderReturned
    /\ ~options.parseOrderToPrecision
    /\ "cummulativeQuoteQty" \in DOMAIN call.order
    /\ "fills" \in DOMAIN call.order
    /\ Len(call.order.fills) = 2
    /\ call.order.fills[1].price = Rat(5, 1)
    /\ call.order.fills[1].commissionAsset = "XBT"
    /\ call.order.fills[2].price = Rat(10, 1)
    /\ call.order.fills[2].commissionAsset = "USD"
    /\ result.value.cost = Rat(215, 2)
    /\ result.value.fee = [cost |-> Rat(3, 1), currency |-> "BTC"]

\* C6: a market order with raw price zero whose returned cost and filled
\* are both positive has price = cost / filled, whether the cost comes from
\* the cumulative quote quantity or from the fills (stated for the default
\* configuration, parseOrderToPrecision off, where the returned cost is
\* the cost the method computed).
C6_MarketPriceBackfilled ==
    (ParseOrderReturned
        /\ ~options.parseOrderToPrecision
        /\ result.value.type = "market"
        /\ safeFloat(call.order, "price") = Zero
        /\ result.value.cost # undefinedNumber
        /\ result.value.filled # undefinedNumber
        /\ RLess(Zero, result.value.cost)
        /\ RLess(Zero, result.value.filled))
    => result.value.price = RDiv(result.value.cost, result.value.filled)

BothQuantities ==
    "origQty" \in DOMAIN call.order /\ "executedQty" \in DOMAIN call.order

\* C7 as stated: in every configuration remaining = max(amount - filled, 0)
\* when both are present, and is undefined when either is absent.
C7_AsStated ==
    ParseOrderReturned =>
        /\ BothQuantities =>
            result.value.remaining =
                RMax(RSub(call.order.origQty, call.order.executedQty), Zero)
        /\ ~BothQuantities => result.value.remaining = undefinedNumber

\* C7 (amended): when amount and filled are both present remaining is never
\* negative and, with parseOrderToPrecision off, equals
\* max(amount - filled, 0); when either is absent remaining is undefined.
C7_RemainingClamped ==
    ParseOrderReturned =>
        /\ BothQuantities =>
            /\ ~RLess(result.value.remaining, Zero)
            /\ ~options.parseOrderToPrecision =>
                result.value.remaining =
                    RMax(RSub(call.order.origQty, call.order.executedQty), Zero)
        /\ ~BothQuantities => result.value.remaining = undefinedNumber

\* amount = 1, filled = 1.5 gives remaining = 0
C7_Witness ==
    /\ ParseOrderReturned
    /\ ~options.parseOrderToPrecision
    /\ BothQuantities
    /\ call.order.origQty = Rat(1, 1)
    /\ call.order.executedQty = Rat(3, 2)
    /\ result.value.remaining = Zero

\* C8: with parseOrderToPrecision off, average = cost / filled when filled
\* is nonzero and the returned cost is defined, and average is undefined
\* when filled is zero or absent; the average is never a division by zero.
C8_AverageGuarded ==
    (ParseOrderReturned /\ ~options.parseOrderToPrecision) =>
        LET o == result.value
        IN  /\ (o.filled # undefinedNumber /\ o.filled # Zero
                    /\ o.cost # undefinedNumber)
                => o.average = RDiv(o.cost, o.filled)
            /\ (o.filled = undefinedNumber \/ o.filled = Zero)
                => o.average = undefinedNumber
            /\ o.average # undefinedNumber => o.average[2] # 0

\* an unfilled order with a defined cost has no average
C8_Witness ==
    /\ ParseOrderReturned
    /\ ~options.parseOrderToPrecision
    /\ result.value.filled = Zero
    /\ result.value.cost = Rat(100, 1)
    /\ result.value.average = undefinedNumber

----------------------------------------------------------------------------
(* Claims about parseTrade and parseOrderStatus.                           *)

ParseTradeDone == call.op = "parseTrade" /\ result # Pending

\* C9: side follows the first field present among m, isBuyerMaker and
\* isBuyer: m and isBuyerMaker inverted (true is sell), isBuyer direct
\* (true is buy); with none of the three there is no side.
C9_SidePriority ==
    ParseTradeDone =>
        LET t == call.trade
            side == result.value.side
        IN  /\ result.kind = "return"
            /\ "m" \in DOMAIN t => side = (IF t.m THEN "sell" ELSE "buy")
            /\ ("m" \notin DOMAIN t /\ "isBuyerMaker" \in DOMAIN t)
                => side = (IF t.isBuyerMaker THEN "sell" ELSE "buy")
            /\ ("m" \notin DOMAIN t /\ "isBuyerMaker" \notin DOMAIN t
                    /\ "isBuyer" \in DOMAIN t)
                => side = (IF t.isBuyer THEN "buy" ELSE "sell")
            /\ ({"m", "isBuyerMaker", "isBuyer"} \cap DOMAIN t = {})
                => side = undefined

\* a trade carrying m = true and isBuyer = true follows m
C9_Witness ==
    /\ ParseTradeDone
    /\ DOMAIN call.trade \cap {"m", "isBuyerMaker", "isBuyer"} = {"m", "isBuyer"}
    /\ call.trade.m
    /\ call.trade.isBuyer
    /\ result.value.side = "sell"

ParseOrderStatusDone == call.op = "parseOrderStatus" /\ result # Pending

\* C10: parseOrderStatus never raises; NEW and PARTIALLY_FILLED give open,
\* FILLED closed, CANCELED canceled, PENDING_CANCEL canceling, REJECTED
\* rejected, EXPIRED expired, and any other raw status is returned as is.
C10_StatusMappingTotal ==
    ParseOrderStatusDone =>
        LET s == call.status
        IN  /\ result.kind = "return"
            /\ result.value =
                CASE s \in {"NEW", "PARTIALLY_FILLED"} -> "open"
                  [] s = "FILLED" -> "closed"
                  [] s = "CANCELED" -> "canceled"
                  [] s = "PENDING_CANCEL" -> "canceling"
                  [] s = "REJECTED" -> "rejected"
                  [] s = "EXPIRED" -> "expired"
                  [] OTHER -> s

\* a status outside the table comes back unchanged
C10_Witness ==
    /\ ParseOrderStatusDone
    /\ call.status = "PENDING_NEW"
    /\ result = Return("PENDING_NEW")

----------------------------------------------------------------------------
(* parseTicker.                                                            *)

ParseTickerDone == call.op = "parseTicker" /\ result # Pending

\* C11: parseTicker resolves the ticker's symbol in this order: when the
\* raw venue id is a key of the catalog, the symbol is the canonical symbol
\* of that catalog instrument; otherwise, when the id contains '/', the
\* symbol is the two legs normalized and joined with '/'; otherwise the
\* symbol is the raw id.
C11_SymbolResolutionOrder ==
    (ParseTickerDone /\ "symbol" \in DOMAIN call.ticker) =>
        LET marketId == call.ticker.symbol
            symbol == result.value.symbol
        IN IF marketId \in DOMAIN markets_by_id
           THEN symbol = markets_by_id[marketId].symbol
           ELSE IF hasSlash(marketId)
           THEN symbol = slashJoin(safeCurrencyCode(split(marketId)[1]),
                                   safeCurrencyCode(split(marketId)[2]))
           ELSE symbol = marketId

----------------------------------------------------------------------------
(* fetchMarkets.                                                           *)

FetchMarketsReturned == call.op = "fetchMarkets" /\ result.kind = "return"

\* the built entries with the filters of their raw instrument, by type
BuiltEntries ==
    {<<result.value[i], indexBy(call.response.symbols[i].filters, "filterType")>> :
        i \in 1..Len(result.value)}

\* C12: for every instrument built by fetchMarkets whose raw filter list
\* has a LOT_SIZE filter, the amount precision equals the number of digits
\* after the decimal point of stepSize (zero for an integer step),
\* replacing baseAssetPrecision, and limits.amount.min and limits.amount.max
\* equal the filter's minQty and maxQty.
C12_LotSizeOverrides ==
    FetchMarketsReturned =>
        \A e \in BuiltEntries :
            "LOT_SIZE" \in DOMAIN e[2] =>
                LET filter == e[2]["LOT_SIZE"]
                IN /\ e[1].precision.amount = precisionFromString(filter.stepSize)
                   /\ e[1].limits.amount.min = safeFloat(filter, "minQty")
                   /\ e[1].limits.amount.max = safeFloat(filter, "maxQty")

\* an integer step replaced the top-level precision 3 by 0
C12_Witness ==
    /\ FetchMarketsReturned
    /\ \E e \in BuiltEntries :
        /\ "LOT_SIZE" \in DOMAIN e[2]
        /\ e[2]["LOT_SIZE"].stepSize = <<"1">>
        /\ e[1].info.baseAssetPrecision = 3
        /\ e[1].precision.amount = 0
        /\ e[1].limits.amount = [min |-> Rat(1, 10), max |-> Rat(500, 1)]

\* C13: for every instrument built by fetchMarkets with a PRICE_FILTER,
\* limits.price.min equals the filter's minPrice, limits.price.max equals
\* maxPrice when maxPrice is above zero and is undefined when maxPrice is
\* zero or absent, and the price precision is derived from the filter's
\* tickSize, replacing quotePrecision; without a PRICE_FILTER both price
\* limits are undefined and the price precision is quotePrecision.
C13_PriceFilterOverrides ==
    FetchMarketsReturned =>
        \A e \in BuiltEntries :
            IF "PRICE_FILTER" \in DOMAIN e[2]
            THEN LET filter == e[2]["PRICE_FILTER"]
                     maxPrice == safeFloat(filter, "maxPrice")
                 IN /\ e[1].limits.price.min = safeFloat(filter, "minPrice")
                    /\ e[1].limits.price.max =
                          IF "maxPrice" \in DOMAIN filter /\ RLess(Zero, filter.maxPrice)
                          THEN filter.maxPrice ELSE undefinedNumber
                    /\ e[1].precision.price = precisionFromString(filter.tickSize)
            ELSE /\ e[1].limits.price = [min |-> undefinedNumber, max |-> undefinedNumber]
                 /\ e[1].precision.price = e[1].info.quotePrecision

\* a filter with maxPrice 0 and tick 0.01: max undefined, precision 2
C13_Witness ==
    /\ FetchMarketsReturned
    /\ \E e \in BuiltEntries :
        /\ "PRICE_FILTER" \in DOMAIN e[2]
        /\ "maxPrice" \in DOMAIN e[2]["PRICE_FILTER"]
        /\ e[2]["PRICE_FILTER"].maxPrice = Zero
        /\ e[2]["PRICE_FILTER"].tickSize = <<"0", ".", "0", "1">>
        /\ e[1].limits.price = [min |-> Rat(1, 100), max |-> undefinedNumber]
        /\ e[1].precision.price = 2
        /\ e[1].info.quotePrecision = 3

\* C14: when the raw exchange-info payload has no instrument list field
\* (symbols absent), fetchMarkets returns an empty instrument list rather
\* than raising.
C14_AbsentListGivesEmptyResult ==
    (call.op = "fetchMarkets" /\ result # Pending
        /\ "symbols" \notin DOMAIN call.response) =>
            result = Return(<<>>)

----------------------------------------------------------------------------
(* sign.                                                                   *)

SignedPrivate ==
    call.op = "sign" /\ result.kind = "return" /\ call.api = "private"

FormHeaders ==
    ("X-MBX-APIKEY" :> call.self.apiKey)
        @@ ("Content-Type" :> "application/x-www-form-urlencoded")

\* C16 as stated: the signed query is on the URL with an empty body for GET,
\* and in the body with the form content type, the URL without a query,
\* for the write methods POST and DELETE.
C16_AsStated ==
    SignedPrivate =>
        IF call.method = "GET"
        THEN /\ result.value.url =
                    urlOf("private", call.path) \o "?" \o signedQuery(call.self, call.params)
             /\ result.value.body = undefined
             /\ result.value.headers = ("X-MBX-APIKEY" :> call.self.apiKey)
        ELSE /\ result.value.url = urlOf("private", call.path)
             /\ result.value.body = signedQuery(call.self, call.params)
             /\ result.value.headers = FormHeaders

\* C16: for a private request, sign places the full signed query on the URL
\* and leaves the body empty when the method is GET or DELETE, and places it
\* in the request body with content type application/x-www-form-urlencoded,
\* leaving the URL without a query, for any other method (POST); in both
\* cases the API key header is set.
C16_QueryPlacement ==
    SignedPrivate =>
        /\ result.value.headers["X-MBX-APIKEY"] = call.self.apiKey
        /\ IF call.method \in {"GET", "DELETE"}
           THEN /\ result.value.url =
                       urlOf("private", call.path) \o "?"
                           \o signedQuery(call.self, call.params)
                /\ result.value.body = undefined
                /\ DOMAIN result.value.headers = {"X-MBX-APIKEY"}
           ELSE /\ result.value.url = urlOf("private", call.path)
                /\ result.value.body = signedQuery(call.self, call.params)
                /\ result.value.headers = FormHeaders

\* a signed DELETE of an order: everything on the URL
C16_Witness ==
    /\ SignedPrivate
    /\ call.method = "DELETE"
    /\ call.path = "order"
    /\ call.params = <<<<"symbol", "BTC/USD">>, <<"orderId", "42">>>>
    /\ call.self.milliseconds = 1003
    /\ options.timeDifference = 3
    /\ result.value.body = undefined
    /\ result.value.url =
        "https://api-adapter.backend.currency.com/api/v1/order?timestamp=1000&recvWindow=5000&symbol=BTC%2FUSD&orderId=42&signature=hmac-sha256(timestamp=1000&recvWindow=5000&symbol=BTC%2FUSD&orderId=42,SECRET)"

\* the request carries the query text q, on its URL or as its body
Carries(q) ==
    \/ result.value.url = urlOf(call.api, call.path) \o "?" \o q
    \/ result.value.body = q

\* "timestamp=<local time - offset>&recvWindow=<configured window>"
StampText ==
    "timestamp=" \o ToString(call.self.milliseconds - options.timeDifference)
        \o "&recvWindow=" \o ToString(options.recvWindow)

\* the caller's parameters, encoded, as they follow other parameters
ParamsSuffix == IF call.params = <<>> THEN "" ELSE "&" \o urlencode(call.params)

ParamKeys == {call.params[i][1] : i \in 1..Len(call.params)}

PublicRequestIsBare ==
    (call.op = "sign" /\ result # Pending /\ call.api = "public") =>
        /\ result.kind = "return"
        /\ result.value.body = undefined
        /\ result.value.url =
              IF call.params = <<>> THEN urlOf("public", call.path)
              ELSE urlOf("public", call.path) \o "?" \o urlencode(call.params)

\* C17 as stated: every private request carries the timestamp local time
\* minus offset and the configured recvWindow, then the signature of that
\* text as the last parameter; a public request carries none of the three.
C17_AsStated ==
    /\ SignedPrivate =>
          Carries(StampText \o ParamsSuffix \o "&signature="
                    \o hmac(StampText \o ParamsSuffix, call.self.secret))
    /\ PublicRequestIsBare

\* C17: every private request built by sign carries, as the last parameter,
\* the HMAC under the secret key of the URL-encoded parameter string that
\* precedes it; that string holds timestamp = local time minus the cached
\* offset and recvWindow = the configured window followed by the caller's
\* parameters, unless the caller's parameters name timestamp or recvWindow
\* themselves, whose value then replaces the computed one; a public request
\* carries the caller's parameters only.
C17_SignedQuery ==
    /\ SignedPrivate =>
          /\ Carries(unsignedQuery(call.self, call.params) \o "&signature="
                \o hmac(unsignedQuery(call.self, call.params), call.self.secret))
          /\ (ParamKeys \cap {"timestamp", "recvWindow"} = {}) =>
                unsignedQuery(call.self, call.params) = StampText \o ParamsSuffix
          /\ call.params = <<<<"symbol", "EVK">>, <<"recvWindow", "60000">>>> =>
                unsignedQuery(call.self, call.params) =
                    "timestamp="
                        \o ToString(call.self.milliseconds - options.timeDifference)
                        \o "&recvWindow=60000&symbol=EVK"
    /\ PublicRequestIsBare

\* a signed POST with a cached offset of -4
C17_Witness ==
    /\ SignedPrivate
    /\ call.method = "POST"
    /\ call.params = <<<<"symbol", "BTC/USD">>>>
    /\ call.self.milliseconds = 1000
    /\ options.timeDifference = -4
    /\ result.value.body =
        "timestamp=1004&recvWindow=5000&symbol=BTC%2FUSD&signature=hmac-sha256(timestamp=1004&recvWindow=5000&symbol=BTC%2FUSD,SECRET)"

----------------------------------------------------------------------------
(* calculateFee.                                                           *)

CalculateFeeDone == call.op = "calculateFee" /\ result # Pending

\* C18: calculateFee returns, for a sell, the quote currency and
\* cost = amount * rate * price rounded to the market's price precision,
\* and, for a buy, the base currency and cost = amount * rate rounded to the
\* market's amount precision; rate is the market's static maker or taker
\* rate selected by the role argument and type echoes that role.
C18_FeeBySide ==
    CalculateFeeDone =>
        LET market == markets[call.symbol]
            fee == result.value
            rate == IF call.takerOrMaker = "maker" THEN market.maker ELSE market.taker
        IN /\ fee.type = call.takerOrMaker
           /\ fee.rate = rate
           /\ call.side = "sell" =>
                /\ fee.currency = market.quote
                /\ fee.cost = RRound(RMul(RMul(call.amount, rate), call.price),
                                     market.precision.price)
           /\ call.side = "buy" =>
                /\ fee.currency = market.base
                /\ fee.cost = RRound(RMul(call.amount, rate), market.precision.amount)

\* a buy of 2.5 EVK at 333: 0.005 EVK, the price not entering
C18_Witness ==
    /\ CalculateFeeDone
    /\ call.symbol = "EVK/EUR"
    /\ call.side = "buy"
    /\ call.amount = Rat(5, 2)
    /\ call.price = Rat(333, 1)
    /\ result.value.currency = "EVK"
    /\ result.value.cost = Rat(5, 1000)

----------------------------------------------------------------------------
(* handleErrors: the nested message.                                       *)

----------------------------------------------------------------------------
(* Argument validation and the network.                                    *)

CallDone == pc = "done"

MissingSymbol ==
    /\ CallDone
    /\ call.op \in {"cancelOrder", "fetchMyTrades"}
    /\ call.symbol = undefined

MissingAccountId ==
    /\ CallDone
    /\ call.op = "createOrder"
    /\ markets[call.symbol].margin
    /\ \A i \in 1..Len(call.params) : call.params[i][1] # "accountId"

MissingPrice ==
    /\ CallDone
    /\ call.op = "createOrder"
    /\ call.type = "limit"
    /\ call.price = undefinedNumber

\* C15 as stated: cancelOrder and fetchMyTrades without a symbol, createOrder
\* on a margin market without accountId and createOrder of a limit order
\* without a price each raise ArgumentsRequired, and the call has issued no
\* outbound request, the catalog load included.
C15_AsStated ==
    (MissingSymbol \/ MissingAccountId \/ MissingPrice) =>
        /\ result.kind = "throw"
        /\ result.class = ArgumentsRequired
        /\ requests = <<>>

\* C15: cancelOrder and fetchMyTrades called without a symbol raise
\* ArgumentsRequired with no outbound request issued at all; createOrder
\* raises ArgumentsRequired on a margin market without accountId, and
\* otherwise InvalidOrder for a limit order without a price, both after the
\* catalog load, which alone may have issued requests (exchangeInfo, time),
\* and before any order request.
C15_ValidationBeforeOrderRequest ==
    /\ MissingSymbol =>
          /\ result.kind = "throw"
          /\ result.class = ArgumentsRequired
          /\ requests = <<>>
    /\ MissingAccountId =>
          /\ result.kind = "throw"
          /\ result.class = ArgumentsRequired
          /\ \A i \in 1..Len(requests) :
                requests[i].api = "public" /\ requests[i].path \in {"exchangeInfo", "time"}
    /\ (MissingPrice /\ ~MissingAccountId) =>
          /\ result.kind = "throw"
          /\ result.class = InvalidOrder
          /\ \A i \in 1..Len(requests) :
                requests[i].api = "public" /\ requests[i].path \in {"exchangeInfo", "time"}

\* the first call of a session is a createOrder on the margin market without
\* accountId: the catalog was fetched, then ArgumentsRequired was raised
C15_Witness ==
    /\ MissingAccountId
    /\ calls = 1
    /\ result.kind = "throw"
    /\ result.class = ArgumentsRequired
    /\ Len(requests) >= 1
    /\ requests[1].path = "exchangeInfo"

----------------------------------------------------------------------------
(* The clock-skew offset.                                                  *)

\* the step runs fetchMarkets: a catalog fetch, or fetchMarkets itself
StepFetchesMarkets ==
    \/ pc = "loadMarkets" /\ loadMarketsFetches(call.op = "loadMarkets" /\ call.reload)
    \/ pc = "body" /\ call.op = "fetchMarkets"

StepLoadsTimeDifference == pc = "body" /\ call.op = "loadTimeDifference"

RequestParams ==
    CASE call.op = "createOrder" -> createOrderRequest(markets[call.symbol], call)
      [] call.op = "cancelOrder" ->
            <<<<"symbol", markets[call.symbol].id>>, <<"orderId", call.id>>>>
      [] call.op = "fetchMyTrades" -> <<<<"symbol", markets[call.symbol].id>>>>
      [] call.op = "fetchOpenOrders" /\ call.symbol # undefined ->
            <<<<"symbol", markets[call.symbol].id>>>>
      [] OTHER -> <<>>

\* every signed request of the call carries local time minus the offset now
\* cached
SignedRequestsUseOffset ==
    \A i \in 1..Len(requests) :
        requests[i].api = "private" =>
            LET text == "timestamp="
                    \o ToString(call.self.milliseconds - options.timeDifference)
                    \o "&recvWindow=5000"
                    \o (IF RequestParams = <<>> THEN ""
                        ELSE "&" \o urlencode(RequestParams))
            IN requests[i].query =
                    text \o "&signature=" \o hmac(text, call.self.secret)

PublicOperations ==
    {"fetchMarkets", "fetchOrderBook", "fetchTicker", "fetchTickers", "fetchOHLCV",
     "fetchTrades", "fetchBalance", "fetchTradingFees", "createOrder", "cancelOrder",
     "fetchOpenOrders", "fetchMyTrades"}

\* the endpoint an operation calls for its own answer
OwnPath ==
    [op \in PublicOperations |->
        CASE op = "fetchMarkets" -> "exchangeInfo"
          [] op = "fetchOrderBook" -> "depth"
          [] op \in {"fetchTicker", "fetchTickers"} -> "ticker/24hr"
          [] op = "fetchOHLCV" -> "klines"
          [] op = "fetchTrades" -> "aggTrades"
          [] op \in {"fetchBalance", "fetchTradingFees"} -> "account"
          [] op \in {"createOrder", "cancelOrder"} -> "order"
          [] op = "fetchOpenOrders" -> "openOrders"
          [] op = "fetchMyTrades" -> "myTrades"]

\* the paths of the requests of the current invocation, in order
RequestPaths == [i \in 1..Len(requests) |-> requests[i].path]

\* the requests a run of fetchMarkets makes: the catalog, then the venue's
\* clock when adjustForTimeDifference is on
CatalogPaths ==
    IF options.adjustForTimeDifference THEN <<"exchangeInfo", "time">>
    ELSE <<"exchangeInfo">>

\* C21 as stated: a finished invocation of a listed operation has issued
\* exactly one request
C21_AsStated ==
    (CallDone /\ call.op \in PublicOperations) => Len(requests) = 1

\* C21: a listed operation other than fetchMarkets issues at most one
\* request to its own endpoint, as the last request of the invocation and
\* preceded only by the requests of a catalog load (none when the catalog is
\* loaded); it issues none when it throws, and exactly one when it returns;
\* while the invocation is pending its own request has not been issued.
\* fetchMarkets issues the catalog request alone with
\* adjustForTimeDifference off and the catalog request followed by the
\* clock request with it on.
C21_AtMostOneOwnRequest ==
    call.op \in PublicOperations =>
        /\ (call.op = "fetchMarkets" /\ CallDone) => RequestPaths = CatalogPaths
        /\ (call.op # "fetchMarkets" /\ result = Pending) =>
                RequestPaths \in {<<>>, CatalogPaths}
        /\ (call.op # "fetchMarkets" /\ CallDone /\ result.kind = "throw") =>
                RequestPaths \in {<<>>, CatalogPaths}
        /\ (call.op # "fetchMarkets" /\ CallDone /\ result.kind = "return") =>
                RequestPaths \in {<<OwnPath[call.op]>>,
                                  CatalogPaths \o <<OwnPath[call.op]>>}

\* a ticker fetched on a fresh session with adjustForTimeDifference on: three
\* requests, the ticker's own last
C21_Witness ==
    /\ CallDone
    /\ call.op = "fetchTicker"
    /\ result.kind = "return"
    /\ RequestPaths = <<"exchangeInfo", "time", "ticker/24hr">>
    /\ requests[3].query = "symbol=EVK"
    /\ result.value.last = Rat(3, 1)

\* open orders without a symbol while the warning option is on: the
\* invocation ends without a request of its own
C21_WitnessNoRequest ==
    /\ CallDone
    /\ call.op = "fetchOpenOrders"
    /\ call.symbol = undefined
    /\ result.kind = "throw"
    /\ RequestPaths = <<>>

\* the built entries with their raw instrument
BuiltFrom ==
    {<<result.value[i], call.response.symbols[i]>> : i \in 1..Len(result.value)}

\* C22 as far as the defaults go: the limits of an instrument without the
\* four filters
DefaultLimitsOnly ==
    FetchMarketsReturned =>
        \A e \in BuiltFrom :
            e[2].filters = <<>> =>
                e[1].limits =
                    [amount |-> [min |-> Rat(1, Pow10(e[2].baseAssetPrecision)),
                                 max |-> undefinedNumber],
                     price |-> [min |-> undefinedNumber, max |-> undefinedNumber],
                     cost |-> [min |-> NegLog10(e[2].baseAssetPrecision),
                               max |-> undefinedNumber]]

\* C22: for every instrument built by fetchMarkets, without a LOT_SIZE
\* filter amount.min is 10^-baseAssetPrecision (amount.max undefined);
\* without a MIN_NOTIONAL filter cost.min is -log10(baseAssetPrecision),
\* of the top-level field also when a LOT_SIZE filter replaces the amount
\* precision; with a MIN_NOTIONAL filter cost.min is its minNotional; a
\* MARKET_LOT_SIZE filter adds the band limits.market with its minQty and
\* maxQty, absent otherwise, and the amount limits are what they are
\* without that filter.
C22_DefaultLimits ==
    /\ DefaultLimitsOnly
    /\ FetchMarketsReturned =>
        \A e \in BuiltFrom :
            LET raw == e[2]
                limits == e[1].limits
                byType == indexBy(raw.filters, "filterType")
                has(type) == type \in DOMAIN byType
            IN /\ ~has("LOT_SIZE") =>
                    limits.amount = [min |-> Rat(1, Pow10(raw.baseAssetPrecision)),
                                     max |-> undefinedNumber]
               /\ ~has("MIN_NOTIONAL") =>
                    limits.cost.min = NegLog10(raw.baseAssetPrecision)
               /\ has("MIN_NOTIONAL") =>
                    limits.cost.min = byType["MIN_NOTIONAL"].minNotional
               /\ limits.cost.max = undefinedNumber
               /\ has("MARKET_LOT_SIZE") <=> "market" \in DOMAIN limits
               /\ has("MARKET_LOT_SIZE") =>
                    /\ limits.market = [min |-> byType["MARKET_LOT_SIZE"].minQty,
                                        max |-> byType["MARKET_LOT_SIZE"].maxQty]
                    /\ limits.amount =
                         limitsOf(raw, [t \in DOMAIN byType \ {"MARKET_LOT_SIZE"} |->
                                            byType[t]]).amount

\* an instrument with baseAssetPrecision 5 whose LOT_SIZE filter sets the
\* amount precision to 2 and which has a MARKET_LOT_SIZE filter and no
\* MIN_NOTIONAL filter: cost.min is -log10(5), the band is there
C22_Witness ==
    /\ FetchMarketsReturned
    /\ pc = "done"
    /\ \E e \in BuiltFrom :
        /\ e[2].baseAssetPrecision = 5
        /\ e[1].precision.amount = 2
        /\ e[1].limits.cost.min = NegLog10(5)
        /\ e[1].limits.amount = [min |-> Rat(1, 10), max |-> Rat(500, 1)]
        /\ "market" \in DOMAIN e[1].limits
        /\ e[1].limits.market = [min |-> Rat(1, 1), max |-> Rat(50, 1)]

\* an instrument with baseAssetPrecision 5 and no filter: amount.min is
\* 1/100000
C22_WitnessDefaults ==
    /\ FetchMarketsReturned
    /\ pc = "done"
    /\ \E e \in BuiltFrom :
        /\ e[2].baseAssetPrecision = 5
        /\ e[2].filters = <<>>
        /\ e[1].limits.amount.min = Rat(1, 100000)

\* C23 as a step property: no step of a normalizer run changes the catalog
CatalogKeptByEveryStep ==
    [][markets' = markets /\ markets_by_id' = markets_by_id]_vars

\* C23: in every state of a run of parseTicker, parseTrade, parseOrder,
\* parseOHLCV and calculateFee calls over a loaded catalog, markets and
\* markets_by_id are the catalog the run started with, also after a payload
\* that names a venue id the catalog does not have.
C23_CatalogReadOnly ==
    /\ markets = CatalogBySymbol
    /\ markets_by_id = Catalog

\* the third call of a run has parsed a ticker of AAPL, which the catalog
\* does not have
C23_Witness ==
    /\ calls = MaxCalls
    /\ pc = "done"
    /\ call.op = "parseTicker"
    /\ "symbol" \in DOMAIN call.ticker
    /\ call.ticker.symbol = "AAPL"
    /\ call.ticker.symbol \notin DOMAIN markets_by_id
    /\ result.kind = "return"
    /\ result.value.symbol = "AAPL"

\* the same for an order of ETH/USD
C23_WitnessOrder ==
    /\ calls = MaxCalls
    /\ pc = "done"
    /\ call.op = "parseOrder"
    /\ call.order.symbol = "ETH/USD"
    /\ call.order.symbol \notin DOMAIN markets_by_id
    /\ result.kind = "return"
=============================================================================
